---- MODULE Spec2Model ----
(***************************************************************************)
(* ComputerCraft dashboard server: the connection registry                 *)
(* (ClientManager), the router (MessageRouter), the message utilities and  *)
(* the WebSocket / HTTP handlers of index.ts.                              *)
(*                                                                         *)
(* A JSON value is a record [t, v]: t is its JavaScript kind and v its     *)
(* text as a sequence of chunks ('<' and '>' are always chunks of their    *)
(* own); for an array v is the sequence of its elements' names.  An        *)
(* envelope is a function from the names of the fields it carries to       *)
(* their values, so a missing field is a name outside its DOMAIN.          *)
(***************************************************************************)
EXTENDS Integers, Sequences, FiniteSets, TLC

\* ---------------------------------------------------------------- bounds
MaxConns == 2
MaxSteps == 4
\* the values the random suffix of a connection id is drawn from, where the
\* draw is followed
MaxDraw == 2
\* the frames a connection sends where the frames in flight are followed
MaxFrames == 2
\* the WebSockets a dashboard creates, and the reconnectAttempts it is
\* configured with
MaxSockets == 3
reconnectAttempts == 2
\* the calls of attemptConnection that are followed
MaxAttempts == 8

\* ------------------------------------------------------------- constants
PING_INTERVAL == 30000
\* the clock value at which the server starts, and the grain of the clock
T0 == PING_INTERVAL
TimeStep == PING_INTERVAL

\* ------------------------------------------------------------ JSON values
Val(t, v) == [t |-> t, v |-> v]
Str(s) == Val("string", s)
Num(n) == Val("number", <<ToString(n)>>)
Bool(b) == Val("boolean", IF b THEN <<"true">> ELSE <<"false">>)
Arr(s) == Val("array", s)
Obj == Val("object", <<"[object Object]">>)
Null == Val("null", <<"null">>)
Undefined == Val("undefined", <<"undefined">>)

\* typeof x
TypeOf(x) == IF x.t \in {"null", "array", "object"} THEN "object" ELSE x.t

\* JavaScript truthiness, as used by !x and x || y
Truthy(x) ==
  CASE x.t \in {"undefined", "null"} -> FALSE
    [] x.t = "string" -> x.v # <<>>
    [] x.t = "number" -> x.v \notin {<<"0">>, <<"NaN">>}
    [] x.t = "boolean" -> x.v = <<"true">>
    [] OTHER -> TRUE

\* x === y on two values that come from different JSON documents: arrays and
\* objects are then distinct references
StrictEq(x, y) == x = y /\ x.t \notin {"array", "object"}

\* obj.f, undefined when the field is missing
Get(m, f) == IF f \in DOMAIN m THEN m[f] ELSE Undefined

\* {...m, f: x}
With(m, f, x) == [k \in DOMAIN m \cup {f} |-> IF k = f THEN x ELSE m[k]]

Without(m, f) == [k \in DOMAIN m \ {f} |-> m[k]]

\* JSON.stringify followed by the peer's parse: fields holding undefined
\* are dropped, everything else arrives as it is
JSONstringify(m) == [k \in {f \in DOMAIN m : m[f].t # "undefined"} |-> m[k]]

\* ------------------------------------------------------------ messageUtils
generateMessageId(now) == Str(<<"msg_", ToString(now), "_", "r">>)

createMessage(partialMessage, now) ==
  LET p == partialMessage
      id == IF Truthy(Get(p, "id")) THEN p["id"] ELSE generateMessageId(now)
      ts == IF Truthy(Get(p, "timestamp")) THEN p["timestamp"] ELSE Num(now)
  IN With(With(p, "id", id), "timestamp", ts)

isValidMessage(obj) ==
  /\ TypeOf(Get(obj, "id")) = "string"
  /\ TypeOf(Get(obj, "timestamp")) = "number"
  /\ TypeOf(Get(obj, "type")) = "string"
  /\ TypeOf(Get(obj, "source")) = "string"

validateMessageType(message) ==
  LET ty == Get(message, "type")
      has(f) == f \in DOMAIN message
  IN CASE ty = Str(<<"chat">>) -> has("content") /\ has("priority")
       [] ty = Str(<<"command">>) ->
            has("targetComputer") /\ has("functionName") /\ has("parameters")
       [] ty = Str(<<"api_registration">>) ->
            has("computerName") /\ has("computerType") /\ has("functions")
       [] ty = Str(<<"status_update">>) -> has("computerName") /\ has("status")
       [] ty = Str(<<"command_response">>) ->
            has("originalCommandId") /\ has("success")
       [] OTHER -> FALSE

RECURSIVE Join(_)
Join(s) ==
  IF Len(s) = 0 THEN <<>>
  ELSE IF Len(s) = 1 THEN s
  ELSE <<s[1], ",">> \o Join(Tail(s))

\* String(x)
ToStr(x) == IF x.t = "array" THEN Join(x.v) ELSE x.v

\* s.replace(/[<>]/, ''): without the g flag only the first match goes
StripAngles_first(s) ==
  IF \E i \in DOMAIN s : s[i] \in {"<", ">"}
  THEN LET i == CHOOSE k \in DOMAIN s :
                  /\ s[k] \in {"<", ">"}
                  /\ \A j \in 1..(k - 1) : s[j] \notin {"<", ">"}
       IN SubSeq(s, 1, i - 1) \o SubSeq(s, i + 1, Len(s))
  ELSE s

\* s.replace(/[<>]/g, '')
StripAngles(s) == SelectSeq(s, LAMBDA c : c \notin {"<", ">"})

sanitizeMessage(message) ==
  IF Get(message, "type") = Str(<<"chat">>)
  THEN With(message, "content", Str(StripAngles(ToStr(Get(message, "content")))))
  ELSE message

\* ----------------------------------------------------------- ClientManager
\* A connection id: `client_${Date.now()}_${random}` for a WebSocket; `http_...`
\* for the identity the HTTP endpoints route under.  Spec and SpecLive follow
\* the runs in which no two draws of the random part agree; SpecIds draws it
\* from 1..MaxDraw, so that ids repeat.  A ConnectedClient is a record of the
\* registry; its transport handle is the entry of `ws` under its id, and the
\* userAgent it is created with is never read and is left out.
generateClientId(now, seq) == [pfx |-> "client", t |-> now, r |-> seq]

NoClient ==
  [id |-> [pfx |-> "none", t |-> 0, r |-> 0], type |-> "none",
   connectedAt |-> 0, lastPing |-> 0, computerName |-> Undefined,
   computerType |-> Undefined, registeredFunctions |-> Undefined]

Ids(cl) == {cl[i].id : i \in DOMAIN cl}

getClient(cl, clientId) ==
  IF clientId \in Ids(cl)
  THEN cl[CHOOSE i \in DOMAIN cl : cl[i].id = clientId]
  ELSE NoClient

\* addClient putting the record at the end whether or not the id is taken
addClient_append(cl, clientId, type, now) ==
  Append(cl, [id |-> clientId, type |-> type, connectedAt |-> now,
              lastPing |-> now, computerName |-> Undefined,
              computerType |-> Undefined, registeredFunctions |-> Undefined])

\* Map.set: a key that is there keeps its place and gets the new record
addClient(cl, clientId, type, now) ==
  LET client == [id |-> clientId, type |-> type, connectedAt |-> now,
                 lastPing |-> now, computerName |-> Undefined,
                 computerType |-> Undefined, registeredFunctions |-> Undefined]
  IN IF clientId \in Ids(cl)
     THEN [i \in DOMAIN cl |-> IF cl[i].id = clientId THEN client ELSE cl[i]]
     ELSE Append(cl, client)

\* removeClient that pops the oldest record when the id is unknown
removeClient_pop(cl, clientId) ==
  IF clientId \in Ids(cl) THEN SelectSeq(cl, LAMBDA c : c.id # clientId)
  ELSE IF cl = <<>> THEN cl ELSE Tail(cl)

\* removeClient emptying the registry when it finds the id
removeClient_clear(cl, clientId) ==
  IF clientId \in Ids(cl) THEN <<>> ELSE cl

removeClient(cl, clientId) == SelectSeq(cl, LAMBDA c : c.id # clientId)

getClientsByType(cl, type) == SelectSeq(cl, LAMBDA c : c.type = type)

\* getComputerByName that lets the latest registration win
getComputerByName_last(cl, computerName) ==
  LET hits == {i \in DOMAIN cl : cl[i].type = "computercraft"
                                 /\ StrictEq(cl[i].computerName, computerName)}
  IN IF hits = {} THEN NoClient
     ELSE cl[CHOOSE i \in hits : \A j \in hits : i >= j]

\* getComputerByName without the test of the role
getComputerByName_anyRole(cl, computerName) ==
  LET hits == {i \in DOMAIN cl : StrictEq(cl[i].computerName, computerName)}
  IN IF hits = {} THEN NoClient
     ELSE cl[CHOOSE i \in hits : \A j \in hits : i <= j]

getComputerByName(cl, computerName) ==
  LET hits == {i \in DOMAIN cl : cl[i].type = "computercraft"
                                 /\ StrictEq(cl[i].computerName, computerName)}
  IN IF hits = {} THEN NoClient
     ELSE cl[CHOOSE i \in hits : \A j \in hits : i <= j]

\* updateClient keeping the name, the type and the functions a record has
updateClient_fill(cl, clientId, updates) ==
  [i \in DOMAIN cl |->
     IF cl[i].id = clientId
     THEN [k \in DOMAIN cl[i] |->
             IF k \notin DOMAIN updates THEN cl[i][k]
             ELSE IF k \in {"type", "lastPing"} THEN updates[k]
             ELSE IF cl[i][k].t = "undefined" THEN updates[k]
             ELSE cl[i][k]]
     ELSE cl[i]]

\* Object.assign(client, updates), no-op when the id is absent
updateClient(cl, clientId, updates) ==
  [i \in DOMAIN cl |->
     IF cl[i].id = clientId
     THEN [k \in DOMAIN cl[i] |->
             IF k \in DOMAIN updates THEN updates[k] ELSE cl[i][k]]
     ELSE cl[i]]

\* isClientAlive that still counts the third missed ping as alive
isClientAlive_le(cl, clientId, now) ==
  LET client == getClient(cl, clientId)
      timeSinceLastPing ==
        now - (IF client.lastPing # 0 THEN client.lastPing
               ELSE client.connectedAt)
  IN /\ clientId \in Ids(cl)
     /\ timeSinceLastPing <= PING_INTERVAL * 3

\* isClientAlive giving up after two heartbeat periods
isClientAlive_two(cl, clientId, now) ==
  LET client == getClient(cl, clientId)
      timeSinceLastPing ==
        now - (IF client.lastPing # 0 THEN client.lastPing
               ELSE client.connectedAt)
  IN /\ clientId \in Ids(cl)
     /\ timeSinceLastPing < PING_INTERVAL * 2

isClientAlive(cl, clientId, now) ==
  LET client == getClient(cl, clientId)
      timeSinceLastPing ==
        now - (IF client.lastPing # 0 THEN client.lastPing
               ELSE client.connectedAt)
  IN /\ clientId \in Ids(cl)
     /\ timeSinceLastPing < PING_INTERVAL * 3

\* sendToClient without the readyState test
sendToClient_noState(cl, rs, thr, clientId) ==
  /\ clientId \in Ids(cl)
  /\ clientId \notin thr

\* thr: the connections whose ws.send throws during this handler
sendToClient(cl, rs, thr, clientId) ==
  /\ clientId \in Ids(cl)
  /\ rs[clientId] = "OPEN"
  /\ clientId \notin thr

\* one entry of the effect log: a sendToClient call and what it returned
Sent(cl, rs, thr, clientId, message) ==
  [e |-> "send", to |-> clientId, msg |-> JSONstringify(message),
   ok |-> sendToClient(cl, rs, thr, clientId)]

\* the for loop leaving at the first call that fails
RECURSIVE broadcastLoop_abort(_, _, _, _, _, _)
broadcastLoop_abort(cl, rs, thr, clients, message, acc) ==
  IF clients = <<>> THEN acc
  ELSE LET call == Sent(cl, rs, thr, Head(clients).id, message)
       IN IF ~call.ok THEN [log |-> Append(acc.log, call), count |-> acc.count]
          ELSE broadcastLoop_abort(cl, rs, thr, Tail(clients), message,
                 [log |-> Append(acc.log, call), count |-> acc.count + 1])

\* the for loop of broadcastToType: acc holds the calls made so far and sentCount
RECURSIVE broadcastLoop(_, _, _, _, _, _)
broadcastLoop(cl, rs, thr, clients, message, acc) ==
  IF clients = <<>> THEN acc
  ELSE LET call == Sent(cl, rs, thr, Head(clients).id, message)
       IN broadcastLoop(cl, rs, thr, Tail(clients), message,
            [log |-> Append(acc.log, call),
             count |-> IF call.ok THEN acc.count + 1 ELSE acc.count])

\* broadcastToType without the filter on the role
broadcastToType_all(cl, rs, thr, type, message) ==
  broadcastLoop(cl, rs, thr, cl, message, [log |-> <<>>, count |-> 0])

\* the calls made by broadcastToType and the sentCount it returns
broadcastToType(cl, rs, thr, type, message) ==
  broadcastLoop(cl, rs, thr, getClientsByType(cl, type), message,
                [log |-> <<>>, count |-> 0])

\* getStats counting every record as a computer
getStats_every(cl, now) ==
  [totalClients |-> Len(cl),
   dashboards |-> Len(getClientsByType(cl, "dashboard")),
   computers |-> Len(cl),
   aliveClients |->
     Cardinality({i \in DOMAIN cl : isClientAlive(cl, cl[i].id, now)})]

getStats(cl, now) ==
  [totalClients |-> Len(cl),
   dashboards |-> Len(getClientsByType(cl, "dashboard")),
   computers |-> Len(getClientsByType(cl, "computercraft")),
   aliveClients |->
     Cardinality({i \in DOMAIN cl : isClientAlive(cl, cl[i].id, now)})]

\* x || d
OrElse(x, d) == IF Truthy(x) THEN x ELSE d

getComputerList(cl, now) ==
  LET devices == getClientsByType(cl, "computercraft")
  IN [i \in DOMAIN devices |->
        [computerName |-> OrElse(devices[i].computerName, Str(<<"Unknown">>)),
         computerType |-> OrElse(devices[i].computerType, Str(<<"computer">>)),
         functions |-> OrElse(devices[i].registeredFunctions, Arr(<<>>)),
         isOnline |-> isClientAlive(cl, devices[i].id, now)]]

RECURSIVE removeAll(_, _)
removeAll(cl, deadClients) ==
  IF deadClients = <<>> THEN cl
  ELSE removeAll(removeClient(cl, Head(deadClients)), Tail(deadClients))

\* the first loop of cleanup without the readyState test
deadClients_aliveOnly(cl, rs, now) ==
  LET dead == SelectSeq(cl, LAMBDA c : ~isClientAlive(cl, c.id, now))
  IN [i \in DOMAIN dead |-> dead[i].id]

\* the first loop of cleanup: the ids it collects
deadClients(cl, rs, now) ==
  LET dead == SelectSeq(cl, LAMBDA c :
                \/ ~isClientAlive(cl, c.id, now)
                \/ rs[c.id] # "OPEN")
  IN [i \in DOMAIN dead |-> dead[i].id]

cleanup(cl, rs, now) == removeAll(cl, deadClients(cl, rs, now))

\* the ping loop sending the pings without noting when
pingAll_noStamp(cl, rs, pthr, now) == cl

\* the ping loop of the interval callback; pthr: the connections whose
\* ws.ping throws at this tick
pingAll(cl, rs, pthr, now) ==
  [i \in DOMAIN cl |->
     IF rs[cl[i].id] = "OPEN" /\ cl[i].id \notin pthr
     THEN [cl[i] EXCEPT !.lastPing = now]
     ELSE cl[i]]

\* destroy leaving at the first close() that throws
destroy_abort(cl, rs, cthr) ==
  LET stop == {i \in DOMAIN cl : cl[i].id \in cthr}
      n == IF stop = {} THEN Len(cl)
           ELSE CHOOSE i \in stop : \A j \in stop : i <= j
      reached == {cl[i].id : i \in 1..n}
  IN [clients |-> IF stop = {} THEN <<>> ELSE cl,
      ws |-> [id \in DOMAIN rs |->
                IF id \in reached /\ id \notin cthr /\ rs[id] = "OPEN"
                THEN "CLOSING" ELSE rs[id]],
      log |-> [i \in 1..n |->
                 [e |-> "close", to |-> cl[i].id, msg |-> [id |-> Undefined],
                  ok |-> cl[i].id \notin cthr]]]

\* destroy after clearInterval: close() on the transport of every record, an
\* OPEN one starting its closing handshake, then clients.clear(); cthr: the
\* connections whose ws.close throws
destroy(cl, rs, cthr) ==
  [clients |-> <<>>,
   ws |-> [id \in DOMAIN rs |->
             IF id \in Ids(cl) /\ id \notin cthr /\ rs[id] = "OPEN"
             THEN "CLOSING" ELSE rs[id]],
   log |-> [i \in DOMAIN cl |->
              [e |-> "close", to |-> cl[i].id, msg |-> [id |-> Undefined],
               ok |-> cl[i].id \notin cthr]]]

\* ----------------------------------------------------------- MessageRouter
\* The result of a handler: the registry, the calls it made in order, whether
\* it threw, and the sentCount of its broadcast (-1 when it made none).
Outcome(cl, log, raised, count) ==
  [clients |-> cl, log |-> log, raised |-> raised, count |-> count]

Updated(cl, clientId) ==
  [e |-> "update", to |-> clientId, msg |-> [id |-> Undefined],
   ok |-> clientId \in Ids(cl)]

\* handleChatMessage broadcasting to the devices as well
handleChatMessage_all(cl, rs, thr, message) ==
  LET b == broadcastToType(cl, rs, thr, "dashboard", message)
      d == broadcastToType(cl, rs, thr, "computercraft", message)
  IN Outcome(cl, b.log \o d.log, FALSE, b.count + d.count)

handleChatMessage(cl, rs, thr, message) ==
  LET b == broadcastToType(cl, rs, thr, "dashboard", message)
  IN Outcome(cl, b.log, FALSE, b.count)

\* handleCommandMessage answering an absent target with the id of the answer
handleCommandMessage_ownId(cl, rs, thr, now, message, senderClientId) ==
  LET targetClient == getComputerByName(cl, Get(message, "targetComputer"))
      errorResponse(text) ==
        createMessage(
          [type |-> Str(<<"command_response">>), source |-> Str(<<"server">>),
           originalCommandId |-> generateMessageId(now),
           success |-> Bool(FALSE), error |-> Str(text)], now)
      forward == Sent(cl, rs, thr, targetClient.id, message)
  IN IF targetClient = NoClient
     THEN Outcome(cl,
            <<Sent(cl, rs, thr, senderClientId,
                   errorResponse(<<"Computer '">>
                     \o ToStr(Get(message, "targetComputer"))
                     \o <<"' is not connected">>))>>,
            FALSE, -1)
     ELSE IF forward.ok
     THEN Outcome(cl, <<forward>>, FALSE, -1)
     ELSE Outcome(cl,
            <<forward,
              Sent(cl, rs, thr, senderClientId,
                   errorResponse(<<"Failed to communicate with computer '">>
                     \o ToStr(Get(message, "targetComputer")) \o <<"'">>))>>,
            FALSE, -1)

\* handleCommandMessage answering a failed delivery with the text it uses for
\* an absent target
handleCommandMessage_sameText(cl, rs, thr, now, message, senderClientId) ==
  LET targetClient == getComputerByName(cl, Get(message, "targetComputer"))
      errorResponse ==
        createMessage(
          [type |-> Str(<<"command_response">>), source |-> Str(<<"server">>),
           originalCommandId |-> Get(message, "id"), success |-> Bool(FALSE),
           error |-> Str(<<"Computer '">>
                           \o ToStr(Get(message, "targetComputer"))
                           \o <<"' is not connected">>)], now)
      forward == Sent(cl, rs, thr, targetClient.id, message)
  IN IF targetClient = NoClient
     THEN Outcome(cl, <<Sent(cl, rs, thr, senderClientId, errorResponse)>>,
                  FALSE, -1)
     ELSE IF forward.ok
     THEN Outcome(cl, <<forward>>, FALSE, -1)
     ELSE Outcome(cl, <<forward, Sent(cl, rs, thr, senderClientId, errorResponse)>>,
                  FALSE, -1)

handleCommandMessage(cl, rs, thr, now, message, senderClientId) ==
  LET targetClient == getComputerByName(cl, Get(message, "targetComputer"))
      errorResponse(text) ==
        createMessage(
          [type |-> Str(<<"command_response">>), source |-> Str(<<"server">>),
           originalCommandId |-> Get(message, "id"), success |-> Bool(FALSE),
           error |-> Str(text)], now)
      forward == Sent(cl, rs, thr, targetClient.id, message)
  IN IF targetClient = NoClient
     THEN Outcome(cl,
            <<Sent(cl, rs, thr, senderClientId,
                   errorResponse(<<"Computer '">>
                     \o ToStr(Get(message, "targetComputer"))
                     \o <<"' is not connected">>))>>,
            FALSE, -1)
     ELSE IF forward.ok
     THEN Outcome(cl, <<forward>>, FALSE, -1)
     ELSE Outcome(cl,
            <<forward,
              Sent(cl, rs, thr, senderClientId,
                   errorResponse(<<"Failed to communicate with computer '">>
                     \o ToStr(Get(message, "targetComputer")) \o <<"'">>))>>,
            FALSE, -1)

\* handleAPIRegistration greeting the device before it tells the viewers
handleAPIRegistration_early(cl, rs, thr, now, message, senderClientId) ==
  LET functions == Get(message, "functions")
      cl2 == updateClient(cl, senderClientId,
               [computerName |-> Get(message, "computerName"),
                computerType |-> Get(message, "computerType"),
                registeredFunctions |-> functions])
      b == broadcastToType(cl2, rs, thr, "dashboard", message)
      welcomeMessage ==
        createMessage(
          [type |-> Str(<<"chat">>), source |-> Str(<<"server">>),
           content |-> Str(<<"Welcome ">>
                           \o ToStr(Get(message, "computerName"))
                           \o <<"! Registration successful. Functions: ">>
                           \o <<ToString(Len(functions.v))>>),
           priority |-> Str(<<"medium">>), category |-> Str(<<"system">>)],
          now)
  IN IF functions.t # "array"
     THEN Outcome(cl, <<>>, TRUE, -1)
     ELSE Outcome(cl2,
            <<Updated(cl, senderClientId),
              Sent(cl2, rs, thr, senderClientId, welcomeMessage)>> \o b.log,
            FALSE, b.count)

handleAPIRegistration(cl, rs, thr, now, message, senderClientId) ==
  LET functions == Get(message, "functions")
      cl2 == updateClient(cl, senderClientId,
               [computerName |-> Get(message, "computerName"),
                computerType |-> Get(message, "computerType"),
                registeredFunctions |-> functions])
      b == broadcastToType(cl2, rs, thr, "dashboard", message)
      welcomeMessage ==
        createMessage(
          [type |-> Str(<<"chat">>), source |-> Str(<<"server">>),
           content |-> Str(<<"Welcome ">>
                           \o ToStr(Get(message, "computerName"))
                           \o <<"! Registration successful. Functions: ">>
                           \o <<ToString(Len(functions.v))>>),
           priority |-> Str(<<"medium">>), category |-> Str(<<"system">>)],
          now)
  IN IF functions.t # "array"
     THEN Outcome(cl, <<>>, TRUE, -1)   \* message.functions.map is not a function
     ELSE Outcome(cl2,
            <<Updated(cl, senderClientId)>> \o b.log
              \o <<Sent(cl2, rs, thr, senderClientId, welcomeMessage)>>,
            FALSE, b.count)

handleStatusUpdate(cl, rs, thr, message) ==
  LET b == broadcastToType(cl, rs, thr, "dashboard", message)
  IN IF Get(message, "status").t \in {"null", "undefined"}
     THEN Outcome(cl, <<>>, TRUE, -1)   \* message.status.currentTask on null
     ELSE Outcome(cl, b.log, FALSE, b.count)

\* handleCommandResponse answering the devices instead of the viewers
handleCommandResponse_devices(cl, rs, thr, message) ==
  LET b == broadcastToType(cl, rs, thr, "computercraft", message)
  IN Outcome(cl, b.log, FALSE, b.count)

handleCommandResponse(cl, rs, thr, message) ==
  LET b == broadcastToType(cl, rs, thr, "dashboard", message)
  IN Outcome(cl, b.log, FALSE, b.count)

\* routeMessage leaving the originator of a chat out of its broadcast
routeMessage_others(cl, rs, thr, now, message, senderClientId) ==
  LET sanitizedMessage == sanitizeMessage(message)
      ty == Get(sanitizedMessage, "type")
      others == SelectSeq(getClientsByType(cl, "dashboard"),
                          LAMBDA c : c.id # senderClientId)
      b == broadcastLoop(cl, rs, thr, others, sanitizedMessage,
                         [log |-> <<>>, count |-> 0])
  IN IF ~validateMessageType(message) THEN Outcome(cl, <<>>, FALSE, -1)
     ELSE CASE ty = Str(<<"chat">>) -> Outcome(cl, b.log, FALSE, b.count)
            [] ty = Str(<<"command">>) ->
                 handleCommandMessage(cl, rs, thr, now, sanitizedMessage,
                                      senderClientId)
            [] ty = Str(<<"api_registration">>) ->
                 handleAPIRegistration(cl, rs, thr, now, sanitizedMessage,
                                       senderClientId)
            [] ty = Str(<<"status_update">>) ->
                 handleStatusUpdate(cl, rs, thr, sanitizedMessage)
            [] ty = Str(<<"command_response">>) ->
                 handleCommandResponse(cl, rs, thr, sanitizedMessage)
            [] OTHER -> Outcome(cl, <<>>, FALSE, -1)

routeMessage(cl, rs, thr, now, message, senderClientId) ==
  LET sanitizedMessage == sanitizeMessage(message)
      ty == Get(sanitizedMessage, "type")
  IN IF ~validateMessageType(message) THEN Outcome(cl, <<>>, FALSE, -1)
     ELSE CASE ty = Str(<<"chat">>) ->
                 handleChatMessage(cl, rs, thr, sanitizedMessage)
            [] ty = Str(<<"command">>) ->
                 handleCommandMessage(cl, rs, thr, now, sanitizedMessage,
                                      senderClientId)
            [] ty = Str(<<"api_registration">>) ->
                 handleAPIRegistration(cl, rs, thr, now, sanitizedMessage,
                                       senderClientId)
            [] ty = Str(<<"status_update">>) ->
                 handleStatusUpdate(cl, rs, thr, sanitizedMessage)
            [] ty = Str(<<"command_response">>) ->
                 handleCommandResponse(cl, rs, thr, sanitizedMessage)
            [] OTHER -> Outcome(cl, <<>>, FALSE, -1)

\* ------------------------------------------------------------------ inputs
Base(id, ty, src) ==
  [id |-> Str(<<id>>), timestamp |-> Num(1000), type |-> Str(<<ty>>),
   source |-> Str(<<src>>)]

ChatFrame ==
  Base("c1", "chat", "dashboard")
    @@ [content |-> Str(<<"<", "b", ">", "hi">>), priority |-> Str(<<"high">>),
        category |-> Str(<<"mining">>)]

CommandFrame(id, target) ==
  Base(id, "command", "dashboard")
    @@ [targetComputer |-> Str(<<target>>), functionName |-> Str(<<"dig">>),
        parameters |-> Obj]

RegistrationFrame(name, ctype, fns) ==
  Base("r1", "api_registration", name)
    @@ [computerName |-> Str(<<name>>), computerType |-> Str(<<ctype>>),
        functions |-> Arr(fns), status |-> Obj]

StatusFrame ==
  Base("s1", "status_update", "A")
    @@ [computerName |-> Str(<<"A">>), status |-> Obj]

ResponseFrame ==
  Base("p1", "command_response", "A")
    @@ [originalCommandId |-> Str(<<"k1">>), success |-> Bool(TRUE)]

\* a response to a command that no connection ever sends
OrphanResponse ==
  Base("p2", "command_response", "A")
    @@ [originalCommandId |-> Str(<<"k9">>), success |-> Bool(FALSE),
        error |-> Str(<<"no fuel">>)]

RegA == RegistrationFrame("A", "turtle", <<"f">>)
RegB == RegistrationFrame("B", "computer", <<"f", "g">>)

\* envelopes with every field of their kind
GoodFrames ==
  {ChatFrame, CommandFrame("k1", "A"), CommandFrame("k2", "B"), RegA, RegB,
   StatusFrame, ResponseFrame, OrphanResponse}

\* envelopes with the base fields but without a field of their kind, or of no
\* known kind
ShortFrames ==
  {Without(ChatFrame, "content"), Without(CommandFrame("k1", "A"), "parameters"),
   Without(RegA, "status"), Without(RegA, "computerName"),
   Without(StatusFrame, "status"), Without(ResponseFrame, "success"),
   Base("x1", "unknown", "dashboard")}

\* envelopes whose fields are all there, one of them of another type
MistypedFrames ==
  {With(ChatFrame, "content", Num(42)), With(RegA, "functions", Str(<<"f">>)),
   With(StatusFrame, "status", Null)}

\* envelopes without a base field, or with one of the wrong primitive type
BaselessFrames ==
  {Without(ChatFrame, "id"), With(ChatFrame, "timestamp", Str(<<"now">>)),
   Without(RegA, "source"), With(CommandFrame("k1", "A"), "source", Num(7)),
   Without(StatusFrame, "type")}

Frames == GoodFrames \cup ShortFrames \cup MistypedFrames \cup BaselessFrames

\* bodies of POST /api/computercraft/register
RegisterBody(name, fns) ==
  [computerName |-> name, computerType |-> Str(<<"turtle">>), functions |-> fns]

RegisterBodies ==
  {RegisterBody(Str(<<"A">>), Arr(<<"f">>)),
   RegisterBody(Num(42), Arr(<<>>)),
   RegisterBody(Str(<<"B">>), Str(<<"f">>)),
   Without(RegisterBody(Str(<<"A">>), Arr(<<"f">>)), "functions"),
   With(RegisterBody(Str(<<"B">>), Arr(<<"f">>)), "status", Obj)}

\* bodies of POST /api/computercraft/command
CommandBodies ==
  {[targetComputer |-> Str(<<"A">>), functionName |-> Str(<<"dig">>),
    parameters |-> Obj],
   [targetComputer |-> Str(<<"B">>), functionName |-> Str(<<"dig">>)],
   [targetComputer |-> Str(<<"A">>)]}

\* -------------------------------------------------------------- useWebSocket
\* The hook of the dashboard.  Its state is a record: connectionState, the
\* refs wsRef, reconnectCountRef and reconnectTimeoutRef, the WebSockets it
\* has created (a socket is named by its place in `sockets`) and the timers
\* it has pending, in the order they were set, which is the order they are
\* due in.  urlRef is set by the first connect and is left out.  The fields
\* op, tries and manual remember the last handler, the connects made by
\* timers since the last 'open', and whether disconnect() was the last call
\* of the user.
NoSocket == 0
NoTimeout == 0

HookInit ==
  [connectionState |-> "disconnected", wsRef |-> NoSocket,
   reconnectCountRef |-> 0, reconnectTimeoutRef |-> NoTimeout,
   sockets |-> <<>>, timers |-> <<>>, made |-> 0,
   op |-> "start", tries |-> 0, manual |-> FALSE]

\* WebSocket.close(): a socket that is connecting or open starts to close
Closed(sockets, s) ==
  [sockets EXCEPT ![s].readyState =
     IF @ \in {"CONNECTING", "OPEN"} THEN "CLOSING" ELSE @]

cleanupHook(h) ==
  LET h1 == IF h.wsRef # NoSocket
            THEN [h EXCEPT !.sockets = Closed(@, h.wsRef), !.wsRef = NoSocket]
            ELSE h
  IN IF h1.reconnectTimeoutRef # NoTimeout
     THEN [h1 EXCEPT !.timers = SelectSeq(@, LAMBDA t : t # h1.reconnectTimeoutRef),
                     !.reconnectTimeoutRef = NoTimeout]
     ELSE h1

attemptReconnect(h) ==
  IF h.reconnectCountRef < reconnectAttempts
  THEN [h EXCEPT !.reconnectCountRef = @ + 1,
                 !.made = @ + 1,
                 !.timers = Append(@, h.made + 1),
                 !.reconnectTimeoutRef = h.made + 1]
  ELSE [h EXCEPT !.connectionState = "error"]

connect(h) ==
  IF h.wsRef # NoSocket /\ h.sockets[h.wsRef].readyState = "OPEN"
  THEN h
  ELSE LET h1 == cleanupHook([h EXCEPT !.connectionState = "connecting"])
       IN [h1 EXCEPT
             !.sockets = Append(@, [readyState |-> "CONNECTING", opened |-> FALSE]),
             !.wsRef = Len(h1.sockets) + 1]

onopen(h) ==
  [h EXCEPT !.connectionState = "connected", !.reconnectCountRef = 0]

onclose(h, code) ==
  LET h1 == [h EXCEPT !.connectionState = "disconnected", !.wsRef = NoSocket]
  IN IF code # 1000 /\ h1.reconnectCountRef < reconnectAttempts
     THEN attemptReconnect(h1)
     ELSE h1

onerror(h) ==
  LET h1 == [h EXCEPT !.connectionState = "error"]
  IN IF h1.reconnectCountRef < reconnectAttempts
     THEN attemptReconnect(h1)
     ELSE h1

disconnect(h) ==
  [cleanupHook([h EXCEPT !.reconnectCountRef = reconnectAttempts])
     EXCEPT !.connectionState = "disconnected"]

\* the test sendMessage starts with
sendMessageReady(h) ==
  h.wsRef # NoSocket /\ h.sockets[h.wsRef].readyState = "OPEN"

\* ------------------------------------------------------ ComputerCraft client
\* The Lua client of the README.  Its state is a record: at, the place in
\* main() it has reached, and connectionAttempts; calls and failed remember
\* how often attemptConnection was called and how often it returned false.
MAX_RETRIES == 5

ClientInit == [at |-> "while", connectionAttempts |-> 0, calls |-> 0, failed |-> 0]

\* what an http.get or http.post can come back with: a body that parses and
\* says what the caller looks for, a body that parses and does not, and no
\* response (a network error, a timeout, a status that is not 2xx, a body
\* that does not parse)
Answers == {"good", "other", "none"}

\* httpRequest: what it does to connectionAttempts
httpRequest(c, answer) ==
  IF answer \in {"good", "other"} THEN [c EXCEPT !.connectionAttempts = 0] ELSE c

\* ------------------------------------------------------------------- state
VARIABLES
  clients,   \* ClientManager.clients, in insertion order
  ws,        \* readyState of every WebSocket accepted so far, by connection id
  now,       \* Date.now()
  nextTick,  \* when the setInterval callback of startPingInterval is next due
  pre,       \* the registry when the last handler started
  log,       \* the registry calls the last handler made, in order
  last,      \* which handler ran last, on what, and how it ended
  wire,      \* by connection: how many frames it has sent, and those in flight
  inbox,     \* by connection: the envelopes ws.send has put on its transport
  missed,    \* by connection: the ticks in a row whose ws.ping threw
  messages,  \* by connection: the history of the useWebSocket hook at its
             \* other end, and how much of the transport the hook has seen
  hook,      \* a useWebSocket instance: its state, its refs, the WebSockets
             \* it has created and the timers it has pending
  client     \* a ComputerCraft client: where it is in main(), and its
             \* connectionAttempts

vars ==
  <<clients, ws, now, nextTick, pre, log, last, wire, inbox, missed, messages,
    hook, client>>

\* the state of the server
ServerVars ==
  <<clients, ws, now, nextTick, pre, log, last, wire, inbox, missed, messages>>

NoId == [pfx |-> "none", t |-> 0, r |-> 0]
NoMsg == [id |-> Undefined]

\* threw: the connections whose ws.send was called by the handler and threw
Ran(op, sender, msg, routed, atRoute, raised, count) ==
  [op |-> op, sender |-> sender, msg |-> msg, routed |-> routed,
   atRoute |-> atRoute, raised |-> raised, count |-> count, threw |-> {}]

\* of the connections whose ws.send throws, those the calls of l reached
Threw(thr, l) ==
  {c \in thr : \E i \in DOMAIN l : l[i].e = "send" /\ l[i].to = c}

Init ==
  /\ clients = <<>>
  /\ ws = [c \in {} |-> "OPEN"]
  /\ now = T0
  /\ nextTick = T0 + PING_INTERVAL
  /\ pre = <<>>
  /\ log = <<>>
  /\ last = Ran("start", NoId, NoMsg, FALSE, <<>>, FALSE, -1)
  /\ wire = [c \in {} |-> [n |-> 0, q |-> <<>>]]
  /\ inbox = [c \in {} |-> <<>>]
  /\ missed = [c \in {} |-> 0]
  /\ messages = [c \in {} |-> [seen |-> 0, list |-> <<>>]]
  /\ hook = HookInit
  /\ client = ClientInit

\* the frames in flight, the transports' contents, the pings that threw and
\* the dashboards are not followed
Quiet == UNCHANGED <<wire, inbox, missed, messages, hook, client>>

\* the connections whose ws.send may throw during a handler
Throwers == SUBSET {c \in Ids(clients) : ws[c] = "OPEN"}

\* wss.on('connection') greeting without the id
Connection_anon ==
  LET clientId == generateClientId(now, Cardinality(DOMAIN ws) + 1)
      welcomeMessage ==
        createMessage(
          [type |-> Str(<<"chat">>), source |-> Str(<<"server">>),
           content |-> Str(<<"Connected to ComputerCraft server!">>),
           priority |-> Str(<<"low">>), category |-> Str(<<"system">>)], now)
  IN /\ Cardinality(DOMAIN ws) < MaxConns
     /\ clients' = addClient(clients, clientId, "dashboard", now)
     /\ ws' = ws @@ (clientId :> "OPEN")
     /\ pre' = clients
     /\ log' = <<[e |-> "send", to |-> clientId,
                  msg |-> JSONstringify(welcomeMessage), ok |-> TRUE]>>
     /\ last' = Ran("connection", clientId, NoMsg, FALSE, clients, FALSE, -1)
     /\ UNCHANGED <<now, nextTick>>

\* wss.on('connection')
Connection ==
  LET clientId == generateClientId(now, Cardinality(DOMAIN ws) + 1)
      welcomeMessage ==
        createMessage(
          [type |-> Str(<<"chat">>), source |-> Str(<<"server">>),
           content |-> Str(<<"Connected to ComputerCraft server! Client ID: ",
                             "client_", ToString(clientId.t), "_",
                             ToString(clientId.r)>>),
           priority |-> Str(<<"low">>), category |-> Str(<<"system">>)], now)
  IN /\ Cardinality(DOMAIN ws) < MaxConns
     /\ clients' = addClient(clients, clientId, "dashboard", now)
     /\ ws' = ws @@ (clientId :> "OPEN")
     /\ pre' = clients
     /\ log' = <<[e |-> "send", to |-> clientId,
                  msg |-> JSONstringify(welcomeMessage), ok |-> TRUE]>>
     /\ last' = Ran("connection", clientId, NoMsg, FALSE, clients, FALSE, -1)
     /\ UNCHANGED <<now, nextTick>>

\* wss.on('connection') with the random part of the id drawn as r; the record
\* of an id that repeats gets the new transport, and the transport its
\* earlier holder had is not followed further
ConnectionDrawn(r) ==
  LET clientId == generateClientId(now, r)
      welcomeMessage ==
        createMessage(
          [type |-> Str(<<"chat">>), source |-> Str(<<"server">>),
           content |-> Str(<<"Connected to ComputerCraft server! Client ID: ",
                             "client_", ToString(clientId.t), "_",
                             ToString(clientId.r)>>),
           priority |-> Str(<<"low">>), category |-> Str(<<"system">>)], now)
  IN /\ clientId \in DOMAIN ws \/ Cardinality(DOMAIN ws) < MaxConns
     /\ clients' = addClient(clients, clientId, "dashboard", now)
     /\ ws' = (clientId :> "OPEN") @@ ws
     /\ pre' = clients
     /\ log' = <<[e |-> "send", to |-> clientId,
                  msg |-> JSONstringify(welcomeMessage), ok |-> TRUE]>>
     /\ last' = Ran("connection", clientId, NoMsg, FALSE, clients, FALSE, -1)
     /\ UNCHANGED <<now, nextTick>>

\* ws.on('message') promoting the sender on an envelope of any kind
WsMessage_any(clientId, message, thr) ==
  LET promote == clientId \in Ids(clients)
      cl1 == IF promote
             THEN updateClient(clients, clientId, [type |-> "computercraft"])
             ELSE clients
  IN /\ ws[clientId] # "CLOSED"
     /\ pre' = clients
     /\ IF ~isValidMessage(message)
        THEN /\ clients' = clients
             /\ log' = <<>>
             /\ last' = Ran("message", clientId, message, FALSE, clients,
                            FALSE, -1)
        ELSE \E out \in {routeMessage(cl1, ws, thr, now, message, clientId)} :
             /\ clients' = out.clients
             /\ log' = (IF promote THEN <<Updated(clients, clientId)>>
                        ELSE <<>>) \o out.log
             /\ last' = [Ran("message", clientId, message, TRUE, cl1,
                             out.raised, out.count)
                           EXCEPT !.threw = Threw(thr, out.log)]
     /\ UNCHANGED <<ws, now, nextTick>>

\* ws.on('message') taking the sender's role from the kind of every envelope
WsMessage_latest(clientId, message, thr) ==
  LET promote == clientId \in Ids(clients)
      cl1 == IF promote
             THEN updateClient(clients, clientId,
                    [type |-> IF Get(message, "type") = Str(<<"api_registration">>)
                              THEN "computercraft" ELSE "dashboard"])
             ELSE clients
  IN /\ ws[clientId] # "CLOSED"
     /\ pre' = clients
     /\ IF ~isValidMessage(message)
        THEN /\ clients' = clients
             /\ log' = <<>>
             /\ last' = Ran("message", clientId, message, FALSE, clients,
                            FALSE, -1)
        ELSE \E out \in {routeMessage(cl1, ws, thr, now, message, clientId)} :
             /\ clients' = out.clients
             /\ log' = (IF promote THEN <<Updated(clients, clientId)>>
                        ELSE <<>>) \o out.log
             /\ last' = [Ran("message", clientId, message, TRUE, cl1,
                             out.raised, out.count)
                           EXCEPT !.threw = Threw(thr, out.log)]
     /\ UNCHANGED <<ws, now, nextTick>>

\* ws.on('message'); a frame that JSON.parse rejects ends in the catch block
\* with the effect of a frame that fails isValidMessage
WsMessage(clientId, message, thr) ==
  LET promote == clientId \in Ids(clients)
                 /\ Get(message, "type") = Str(<<"api_registration">>)
      cl1 == IF promote
             THEN updateClient(clients, clientId, [type |-> "computercraft"])
             ELSE clients
  IN /\ ws[clientId] # "CLOSED"
     /\ pre' = clients
     /\ IF ~isValidMessage(message)
        THEN /\ clients' = clients
             /\ log' = <<>>
             /\ last' = Ran("message", clientId, message, FALSE, clients,
                            FALSE, -1)
        ELSE \E out \in {routeMessage(cl1, ws, thr, now, message, clientId)} :
             /\ clients' = out.clients
             /\ log' = (IF promote THEN <<Updated(clients, clientId)>>
                        ELSE <<>>) \o out.log
             /\ last' = [Ran("message", clientId, message, TRUE, cl1,
                             out.raised, out.count)
                           EXCEPT !.threw = Threw(thr, out.log)]
     /\ UNCHANGED <<ws, now, nextTick>>

\* ws.on('close')
WsClose(clientId) ==
  /\ ws[clientId] # "CLOSED"
  /\ clients' = removeClient(clients, clientId)
  /\ ws' = [ws EXCEPT ![clientId] = "CLOSED"]
  /\ pre' = clients
  /\ log' = <<>>
  /\ last' = Ran("close", clientId, NoMsg, FALSE, clients, FALSE, -1)
  /\ UNCHANGED <<now, nextTick>>

\* ws.on('error'): the socket is on its way down, its 'close' follows
WsError(clientId) ==
  /\ ws[clientId] # "CLOSED"
  /\ clients' = removeClient(clients, clientId)
  /\ ws' = [ws EXCEPT ![clientId] = "CLOSING"]
  /\ pre' = clients
  /\ log' = <<>>
  /\ last' = Ran("error", clientId, NoMsg, FALSE, clients, FALSE, -1)
  /\ UNCHANGED <<now, nextTick>>

\* the closing handshake starts: readyState leaves OPEN before 'close' fires
WsClosing(clientId) ==
  /\ ws[clientId] = "OPEN"
  /\ ws' = [ws EXCEPT ![clientId] = "CLOSING"]
  /\ pre' = clients
  /\ log' = <<>>
  /\ last' = Ran("closing", clientId, NoMsg, FALSE, clients, FALSE, -1)
  /\ UNCHANGED <<clients, now, nextTick>>

\* ws.on('pong') making a record for a connection that has none
WsPong_upsert(clientId) ==
  /\ ws[clientId] = "OPEN"
  /\ clients' = IF clientId \in Ids(clients)
                THEN updateClient(clients, clientId, [lastPing |-> now])
                ELSE addClient(clients, clientId, "dashboard", now)
  /\ pre' = clients
  /\ log' = <<>>
  /\ last' = Ran("pong", clientId, NoMsg, FALSE, clients, FALSE, -1)
  /\ UNCHANGED <<ws, now, nextTick>>

\* ws.on('pong')
WsPong(clientId) ==
  /\ ws[clientId] = "OPEN"
  /\ clients' = IF clientId \in Ids(clients)
                THEN updateClient(clients, clientId, [lastPing |-> now])
                ELSE clients
  /\ pre' = clients
  /\ log' = <<>>
  /\ last' = Ran("pong", clientId, NoMsg, FALSE, clients, FALSE, -1)
  /\ UNCHANGED <<ws, now, nextTick>>

\* the setInterval callback of startPingInterval
Tick(pthr) ==
  LET dead == deadClients(clients, ws, now)
      cl1 == cleanup(clients, ws, now)
      open == SelectSeq(cl1, LAMBDA c : ws[c.id] = "OPEN")
  IN /\ now >= nextTick
     /\ clients' = pingAll(cl1, ws, pthr, now)
     /\ nextTick' = nextTick + PING_INTERVAL
     /\ pre' = clients
     /\ log' = [i \in DOMAIN dead |->
                  [e |-> "remove", to |-> dead[i], msg |-> NoMsg, ok |-> TRUE]]
               \o [i \in DOMAIN open |->
                  [e |-> "ping", to |-> open[i].id, msg |-> NoMsg,
                   ok |-> open[i].id \notin pthr]]
     /\ last' = Ran("tick", NoId, NoMsg, FALSE, clients, FALSE, -1)
     /\ UNCHANGED <<ws, now>>

\* time passes; the interval callback runs when it is due
AdvanceTime ==
  /\ now < nextTick
  /\ (now - T0) \div TimeStep < MaxSteps
  /\ now' = now + TimeStep
  /\ pre' = clients
  /\ log' = <<>>
  /\ last' = Ran("advance", NoId, NoMsg, FALSE, clients, FALSE, -1)
  /\ UNCHANGED <<clients, ws, nextTick>>

\* a synthetic identity in the format of generateClientId
HttpId_client(t) == [pfx |-> "client", t |-> t, r |-> 1]

HttpId(t) == [pfx |-> "http", t |-> t, r |-> 0]

\* the POST handlers keeping a record of the identity they route under
HttpRoute_kept(op, message, virtualClientId, thr) ==
  \E out \in {routeMessage(clients, ws, thr, now, message, virtualClientId)} :
     /\ clients' = updateClient(
                     addClient(out.clients, virtualClientId, "computercraft", now),
                     virtualClientId,
                     [computerName |-> Get(message, "computerName")])
     /\ ws' = (virtualClientId :> "CLOSED") @@ ws
     /\ pre' = clients
     /\ log' = out.log
     /\ last' = [Ran(op, virtualClientId, message, TRUE, clients, out.raised,
                     out.count)
                   EXCEPT !.threw = Threw(thr, out.log)]
     /\ UNCHANGED <<now, nextTick>>

\* the three POST handlers end alike: route, answer 200, or 500 when it threw
HttpRoute(op, message, virtualClientId, thr) ==
  \E out \in {routeMessage(clients, ws, thr, now, message, virtualClientId)} :
     /\ clients' = out.clients
     /\ pre' = clients
     /\ log' = out.log
     /\ last' = [Ran(op, virtualClientId, message, TRUE, clients, out.raised,
                     out.count)
                   EXCEPT !.threw = Threw(thr, out.log)]
     /\ UNCHANGED <<ws, now, nextTick>>

\* answer 400 without routing
HttpReject(op, body) ==
  /\ pre' = clients
  /\ log' = <<>>
  /\ last' = Ran(op, NoId, body, FALSE, clients, FALSE, -1)
  /\ UNCHANGED <<clients, ws, now, nextTick>>

\* app.post('/api/computercraft/message')
HttpMessage(message, thr) ==
  IF ~isValidMessage(message)
  THEN HttpReject("http_message", message)
  ELSE HttpRoute("http_message", message, HttpId(now), thr)

\* app.post('/api/computercraft/register')
HttpRegister(body, thr) ==
  LET computerName == Get(body, "computerName")
      status == Get(body, "status")
      registrationMessage ==
        createMessage(
          [type |-> Str(<<"api_registration">>), source |-> computerName,
           computerName |-> computerName,
           computerType |-> Get(body, "computerType"),
           functions |-> Get(body, "functions"),
           status |-> IF Truthy(status) THEN status ELSE Obj], now)
  IN IF \/ ~Truthy(computerName)
        \/ ~Truthy(Get(body, "computerType"))
        \/ ~Truthy(Get(body, "functions"))
     THEN HttpReject("http_register", body)
     ELSE HttpRoute("http_register", registrationMessage, HttpId(0), thr)

\* app.post('/api/computercraft/command')
HttpCommand(body, thr) ==
  LET parameters == Get(body, "parameters")
      commandMessage ==
        createMessage(
          [type |-> Str(<<"command">>), source |-> Str(<<"http_api">>),
           targetComputer |-> Get(body, "targetComputer"),
           functionName |-> Get(body, "functionName"),
           parameters |-> IF Truthy(parameters) THEN parameters ELSE Obj], now)
  IN IF ~Truthy(Get(body, "targetComputer")) \/ ~Truthy(Get(body, "functionName"))
     THEN HttpReject("http_command", body)
     ELSE HttpRoute("http_command", commandMessage, HttpId(now), thr)

\* the envelopes the heartbeat specification lets connections send
LiveFrames == {ChatFrame, RegA}

\* routing: every handler of index.ts, at one instant of the clock
Next ==
  \/ Connection /\ Quiet
  \/ \E c \in DOMAIN ws, m \in Frames, thr \in Throwers : WsMessage(c, m, thr) /\ Quiet
  \/ \E c \in DOMAIN ws : WsClose(c) /\ Quiet
  \/ \E c \in DOMAIN ws : WsError(c) /\ Quiet
  \/ \E c \in DOMAIN ws : WsClosing(c) /\ Quiet
  \/ \E c \in DOMAIN ws : WsPong(c) /\ Quiet
  \/ \E m \in Frames, thr \in Throwers : HttpMessage(m, thr) /\ Quiet
  \/ \E b \in RegisterBodies, thr \in Throwers : HttpRegister(b, thr) /\ Quiet
  \/ \E b \in CommandBodies, thr \in Throwers : HttpCommand(b, thr) /\ Quiet

Spec == Init /\ [][Next]_vars

\* heartbeat: the connection events and the interval callback as time passes
NextLive ==
  \/ Connection /\ Quiet
  \/ \E c \in DOMAIN ws, m \in LiveFrames : WsMessage(c, m, {}) /\ Quiet
  \/ \E c \in DOMAIN ws : WsClose(c) /\ Quiet
  \/ \E c \in DOMAIN ws : WsError(c) /\ Quiet
  \/ \E c \in DOMAIN ws : WsClosing(c) /\ Quiet
  \/ \E c \in DOMAIN ws : WsPong(c) /\ Quiet
  \/ \E pthr \in Throwers : Tick(pthr) /\ Quiet
  \/ AdvanceTime /\ Quiet

SpecLive == Init /\ [][NextLive]_vars

\* connection ids: the heartbeat specification with the random part of every
\* id drawn from 1..MaxDraw
NextIds ==
  \/ \E r \in 1..MaxDraw : ConnectionDrawn(r) /\ Quiet
  \/ \E c \in DOMAIN ws, m \in LiveFrames : WsMessage(c, m, {}) /\ Quiet
  \/ \E c \in DOMAIN ws : WsClose(c) /\ Quiet
  \/ \E c \in DOMAIN ws : WsError(c) /\ Quiet
  \/ \E c \in DOMAIN ws : WsClosing(c) /\ Quiet
  \/ \E c \in DOMAIN ws : WsPong(c) /\ Quiet
  \/ \E pthr \in Throwers : Tick(pthr) /\ Quiet
  \/ AdvanceTime /\ Quiet

SpecIds == Init /\ [][NextIds]_vars

\* the value of nextTick once clearInterval has run
NoTimer == 0

\* the process runs: destroy is called once, in the callback of server.close
\* of the SIGINT handler, and process.exit follows it
Up == nextTick # NoTimer

Destroy(cthr) ==
  \E out \in {destroy(clients, ws, cthr)} :
     /\ Up
     /\ nextTick' = NoTimer
     /\ clients' = out.clients
     /\ ws' = out.ws
     /\ pre' = clients
     /\ log' = out.log
     /\ last' = Ran("destroy", NoId, NoMsg, FALSE, clients, FALSE, -1)
     /\ UNCHANGED now

\* shutdown: the heartbeat specification until the process is taken down
NextDown ==
  \/ Up /\ Connection /\ Quiet
  \/ Up /\ \E c \in DOMAIN ws, m \in LiveFrames : WsMessage(c, m, {}) /\ Quiet
  \/ Up /\ \E c \in DOMAIN ws : WsClose(c) /\ Quiet
  \/ Up /\ \E c \in DOMAIN ws : WsError(c) /\ Quiet
  \/ Up /\ \E c \in DOMAIN ws : WsClosing(c) /\ Quiet
  \/ Up /\ \E c \in DOMAIN ws : WsPong(c) /\ Quiet
  \/ Up /\ \E pthr \in Throwers : Tick(pthr) /\ Quiet
  \/ Up /\ AdvanceTime /\ Quiet
  \/ \E cthr \in SUBSET Ids(clients) : Destroy(cthr) /\ Quiet

SpecDown == Init /\ [][NextDown]_vars

\* the pings of the tick that just ran, by how they ended
PingsThat(ok) ==
  {log'[i].to : i \in {k \in DOMAIN log' : log'[k].e = "ping" /\ log'[k].ok = ok}}

BeatConnection ==
  /\ Connection
  /\ missed' = missed @@ (last'.sender :> 0)
  /\ UNCHANGED <<wire, inbox, messages, hook, client>>

\* a pong stamps lastPing as a ping that went out does
BeatPong(c) ==
  /\ WsPong(c)
  /\ missed' = IF c \in Ids(clients) THEN [missed EXCEPT ![c] = 0] ELSE missed
  /\ UNCHANGED <<wire, inbox, messages, hook, client>>

BeatTick(pthr) ==
  /\ Tick(pthr)
  /\ missed' = [c \in DOMAIN missed |->
                  IF c \in PingsThat(TRUE) THEN 0
                  ELSE IF c \in PingsThat(FALSE) THEN missed[c] + 1
                  ELSE missed[c]]
  /\ UNCHANGED <<wire, inbox, messages, hook, client>>

\* beats: the heartbeat specification with the pings that threw counted, the
\* connections sending chats
NextBeat ==
  \/ BeatConnection
  \/ \E c \in DOMAIN ws : WsMessage(c, ChatFrame, {}) /\ Quiet
  \/ \E c \in DOMAIN ws : WsClose(c) /\ Quiet
  \/ \E c \in DOMAIN ws : WsError(c) /\ Quiet
  \/ \E c \in DOMAIN ws : WsClosing(c) /\ Quiet
  \/ \E c \in DOMAIN ws : BeatPong(c)
  \/ \E pthr \in Throwers : BeatTick(pthr)
  \/ AdvanceTime /\ Quiet

SpecBeat == Init /\ [][NextBeat]_vars

\* the k-th frame a connection sends where the frames are followed: a chat
\* that names its sender and its place
OrderFrame(c, k) ==
  Base(ToString(c.r) \o "." \o ToString(k), "chat", "dashboard")
    @@ [content |-> Str(<<"note ", ToString(k)>>), priority |-> Str(<<"low">>)]

\* the frame in flight that the next 'message' event of a connection
\* carries: the newest one
NextFrame_newest(q) == Len(q)

\* the frame in flight that the next 'message' event of a connection
\* carries: the oldest one, a WebSocket keeping the order of its frames
NextFrame(q) == 1

\* every ws.send that returned puts its envelope on the transport
Deliver(box) ==
  [id \in DOMAIN box |->
     LET calls == SelectSeq(log', LAMBDA e : e.e = "send" /\ e.ok /\ e.to = id)
     IN box[id] \o [i \in DOMAIN calls |-> calls[i].msg]]

OrderConnection ==
  /\ Connection
  /\ wire' = wire @@ (last'.sender :> [n |-> 0, q |-> <<>>])
  /\ inbox' = Deliver(inbox @@ (last'.sender :> <<>>))

\* the client of a connection sends its next frame
OrderSend(c) ==
  /\ ws[c] = "OPEN"
  /\ wire[c].n < MaxFrames
  /\ wire' = [wire EXCEPT ![c] = [n |-> @.n + 1,
                                  q |-> Append(@.q, OrderFrame(c, @.n + 1))]]
  /\ pre' = clients
  /\ log' = <<>>
  /\ last' = Ran("wire", c, OrderFrame(c, wire[c].n + 1), FALSE, clients,
                 FALSE, -1)
  /\ UNCHANGED <<clients, ws, now, nextTick, inbox>>

\* ws.on('message') for the frame that arrives next
OrderMessage(c, thr) ==
  LET k == NextFrame(wire[c].q)
  IN /\ wire[c].q # <<>>
     /\ WsMessage(c, wire[c].q[k], thr)
     /\ wire' = [wire EXCEPT ![c].q =
                   SubSeq(@, 1, k - 1) \o SubSeq(@, k + 1, Len(@))]
     /\ inbox' = Deliver(inbox)

\* order: connections whose frames arrive one after the other, between the
\* other events and the interval callback
NextOrder ==
  \/ OrderConnection /\ UNCHANGED <<missed, messages, hook, client>>
  \/ \E c \in DOMAIN ws : OrderSend(c) /\ UNCHANGED <<missed, messages, hook, client>>
  \/ \E c \in DOMAIN ws, thr \in Throwers :
       OrderMessage(c, thr) /\ UNCHANGED <<missed, messages, hook, client>>
  \/ Tick({}) /\ Quiet
  \/ AdvanceTime /\ Quiet

SpecOrder == Init /\ [][NextOrder]_vars

EchoConnection ==
  /\ OrderConnection
  /\ messages' = messages @@ (last'.sender :> [seen |-> 0, list |-> <<>>])
  /\ UNCHANGED <<missed, hook, client>>

\* useWebSocket.sendMessage: the envelope goes out and into the history
EchoSend(c) ==
  /\ OrderSend(c)
  /\ messages' = [messages EXCEPT
                    ![c].list = Append(@, OrderFrame(c, wire[c].n + 1))]
  /\ UNCHANGED <<missed, hook, client>>

\* ws.onmessage of the hook for the envelope its transport holds next
HookMessage(c) ==
  LET message == inbox[c][messages[c].seen + 1]
  IN /\ messages[c].seen < Len(inbox[c])
     /\ messages' = [messages EXCEPT ![c] =
                       [seen |-> @.seen + 1,
                        list |-> IF \/ ~Truthy(Get(message, "type"))
                                    \/ ~Truthy(Get(message, "source"))
                                 THEN @.list ELSE Append(@.list, message)]]
     /\ UNCHANGED <<clients, ws, now, nextTick, pre, log, last, wire, inbox,
                    missed, hook, client>>

\* echo: dashboards that send chats through the hook and take in what the
\* server sends them
NextEcho ==
  \/ EchoConnection
  \/ \E c \in DOMAIN ws : EchoSend(c)
  \/ \E c \in DOMAIN ws :
       \E thr \in {{}, {c}} :
         OrderMessage(c, thr) /\ UNCHANGED <<missed, messages, hook, client>>
  \/ \E c \in DOMAIN ws : HookMessage(c)

SpecEcho == Init /\ [][NextEcho]_vars

\* new WebSocket(url) is called at most MaxSockets times
MayConnect(h) == sendMessageReady(h) \/ Len(h.sockets) < MaxSockets

\* the user calls connect()
HookConnect ==
  /\ MayConnect(hook)
  /\ hook' = [connect(hook) EXCEPT !.op = "connect", !.manual = FALSE]
  /\ UNCHANGED <<ServerVars, client>>

\* the user calls disconnect()
HookDisconnect ==
  /\ hook' = [disconnect(hook) EXCEPT !.op = "disconnect", !.manual = TRUE]
  /\ UNCHANGED <<ServerVars, client>>

\* the timer that is due first fires: the callback attemptReconnect set
HookTimer ==
  /\ hook.timers # <<>>
  /\ MayConnect(hook)
  /\ hook' = [connect([hook EXCEPT !.timers = Tail(@)])
                EXCEPT !.op = "timer",
                       !.tries = IF sendMessageReady(hook) THEN @ ELSE @ + 1]
  /\ UNCHANGED <<ServerVars, client>>

\* the connection of socket s is established: 'open'
SocketOpen(s) ==
  /\ hook.sockets[s].readyState = "CONNECTING"
  /\ hook' = [onopen([hook EXCEPT !.sockets[s] =
                                     [readyState |-> "OPEN", opened |-> TRUE]])
                EXCEPT !.op = "open", !.tries = 0]
  /\ UNCHANGED <<ServerVars, client>>

\* the connection of socket s fails, or was closed before it was established:
\* 'error' and then 'close' with code 1006, in one task
SocketFail(s) ==
  /\ \/ hook.sockets[s].readyState \in {"CONNECTING", "OPEN"}
     \/ hook.sockets[s].readyState = "CLOSING" /\ ~hook.sockets[s].opened
  /\ hook' = [onclose(onerror([hook EXCEPT !.sockets[s].readyState = "CLOSED"]),
                      1006)
                EXCEPT !.op = "fail"]
  /\ UNCHANGED <<ServerVars, client>>

\* the closing handshake of socket s ends: 'close' with the code of the
\* server when it closed an open socket, 1005 after the hook's own close()
SocketClose(s, code) ==
  /\ \/ hook.sockets[s].readyState = "OPEN" /\ code \in {1000, 1001, 1006}
     \/ hook.sockets[s].readyState = "CLOSING" /\ hook.sockets[s].opened
        /\ code = 1005
  /\ hook' = [onclose([hook EXCEPT !.sockets[s].readyState = "CLOSED"], code)
                EXCEPT !.op = "close"]
  /\ UNCHANGED <<ServerVars, client>>

\* dashboard: one useWebSocket instance, its user, its sockets and its timers
NextHook ==
  \/ HookConnect
  \/ HookDisconnect
  \/ HookTimer
  \/ \E s \in DOMAIN hook.sockets : SocketOpen(s)
  \/ \E s \in DOMAIN hook.sockets : SocketFail(s)
  \/ \E s \in DOMAIN hook.sockets, code \in {1000, 1001, 1005, 1006} :
       SocketClose(s, code)

SpecHook == Init /\ [][NextHook]_vars

\* the test of the while loop of main(), and the test after it; isRunning is
\* true until the later loop
ClientLoop ==
  /\ client.at = "while"
  /\ client' = [client EXCEPT !.at =
                  IF client.connectionAttempts < MAX_RETRIES THEN "attempt"
                  ELSE "gave up"]
  /\ UNCHANGED <<ServerVars, hook>>

\* attemptConnection counts the attempt and goes on to testConnection
ClientAttempt ==
  /\ client.at = "attempt"
  /\ client.calls < MaxAttempts
  /\ client' = [client EXCEPT !.connectionAttempts = @ + 1, !.calls = @ + 1,
                              !.at = "health"]
  /\ UNCHANGED <<ServerVars, hook>>

\* testConnection: GET /health
ClientHealth(answer) ==
  /\ client.at = "health"
  /\ client' = [httpRequest(client, answer) EXCEPT
                  !.at = IF answer = "good" THEN "register" ELSE "failed"]
  /\ UNCHANGED <<ServerVars, hook>>

\* registerComputer: POST /api/computercraft/register; attemptConnection
\* returns true, the loop is left by break and the test after it finds the
\* counter at 0
ClientRegister(answer) ==
  /\ client.at = "register"
  /\ client' = [httpRequest(client, answer) EXCEPT
                  !.at = IF answer = "good" THEN "online" ELSE "failed"]
  /\ UNCHANGED <<ServerVars, hook>>

\* attemptConnection returned false: sleep(RETRY_DELAY) unless the counter is
\* at MAX_RETRIES, and back to the test of the loop
ClientRetry ==
  /\ client.at = "failed"
  /\ client' = [client EXCEPT !.failed = @ + 1, !.at = "while"]
  /\ UNCHANGED <<ServerVars, hook>>

\* device: the initial connection loop of one ComputerCraft client
NextClient ==
  \/ ClientLoop
  \/ ClientAttempt
  \/ \E answer \in Answers : ClientHealth(answer)
  \/ \E answer \in Answers : ClientRegister(answer)
  \/ ClientRetry

SpecClient == Init /\ [][NextClient]_vars

\* ------------------------------------------------------------- properties
\* Every action records itself: `last` says which handler produced the state,
\* `pre` is the registry it started from, `last.atRoute` the registry that
\* routeMessage was entered with, and `log` the calls it made.

Kind(m) == Get(m, "type")

\* the handler promoted the sender before it called routeMessage
Promoted ==
  /\ last.op = "message"
  /\ last.routed
  /\ last.sender \in Ids(pre)
  /\ Kind(last.msg) = Str(<<"api_registration">>)

\* the calls made inside routeMessage
RouteLog == IF Promoted THEN Tail(log) ELSE log

\* the connections an envelope reached during the last handler
Delivered == {i \in DOMAIN log : log[i].e = "send" /\ log[i].ok}

\* the fields each kind must carry, as the specification's table lists them
RequiredFields(kind) ==
  CASE kind = Str(<<"chat">>) -> {"content", "priority"}
    [] kind = Str(<<"command">>) ->
         {"targetComputer", "functionName", "parameters"}
    [] kind = Str(<<"api_registration">>) ->
         {"computerName", "computerType", "functions", "status"}
    [] kind = Str(<<"status_update">>) -> {"computerName", "status"}
    [] kind = Str(<<"command_response">>) -> {"originalCommandId", "success"}
    [] OTHER -> {}

Kinds ==
  {Str(<<"chat">>), Str(<<"command">>), Str(<<"api_registration">>),
   Str(<<"status_update">>), Str(<<"command_response">>)}

LacksKindField(m) ==
  /\ Kind(m) \in Kinds
  /\ ~(RequiredFields(Kind(m)) \subseteq DOMAIN m)

\* C1: an envelope routed without a required field of its kind changes no
\* record of the registry and reaches no connection.
C1_ShortEnvelopeIsDropped ==
  (last.routed /\ LacksKindField(last.msg))
    => (clients = last.atRoute /\ Delivered = {})

\* C2: an envelope without one of the base fields id, timestamp, type, source
\* (or with one of the wrong primitive type) changes no record and reaches no
\* connection, whichever endpoint it came through.
C2_BaselessEnvelopeIsDropped ==
  (last.msg # NoMsg /\ last.routed /\ ~isValidMessage(last.msg))
    => (clients = pre /\ Delivered = {})

\* the device-role records registered under a name
DevicesNamed(cl, name) ==
  {i \in DOMAIN cl : cl[i].type = "computercraft"
                      /\ StrictEq(cl[i].computerName, name)}

RoutedKind(kind) ==
  /\ last.routed
  /\ ~last.raised
  /\ Kind(last.msg) = kind
  /\ RequiredFields(kind) \subseteq DOMAIN last.msg

\* C3: a command naming no device-role record makes exactly one call, a
\* command_response with success=false, source "server" and the command's id
\* as originalCommandId, to the originating connection; nobody else receives
\* anything and the registry is unchanged.
C3_AbsentTargetAnswered ==
  (RoutedKind(Str(<<"command">>))
   /\ DevicesNamed(last.atRoute, last.msg["targetComputer"]) = {})
    => /\ Len(log) = 1
       /\ log[1].e = "send"
       /\ log[1].to = last.sender
       /\ Kind(log[1].msg) = Str(<<"command_response">>)
       /\ Get(log[1].msg, "success") = Bool(FALSE)
       /\ Get(log[1].msg, "source") = Str(<<"server">>)
       /\ Get(log[1].msg, "originalCommandId") = last.msg["id"]
       /\ clients = pre

C3_Witness ==
  /\ RoutedKind(Str(<<"command">>))
  /\ DevicesNamed(last.atRoute, last.msg["targetComputer"]) = {}
  /\ Len(clients) = 2
  /\ Delivered = {1}
  /\ \E i \in DOMAIN clients :
       clients[i].id # last.sender /\ ws[clients[i].id] = "OPEN"

\* the open device-role connections registered under a name
OpenDevicesNamed(cl, name) == {i \in DevicesNamed(cl, name) : ws[cl[i].id] = "OPEN"}

\* C4 as stated: with exactly one open device-role connection under the
\* command's targetComputer, that connection and no other receives the
\* unmodified command, and the originator gets no command_response.
C4_OpenDeviceGetsCommand ==
  (RoutedKind(Str(<<"command">>))
   /\ Cardinality(OpenDevicesNamed(last.atRoute, last.msg["targetComputer"])) = 1)
    => LET d == CHOOSE i \in OpenDevicesNamed(last.atRoute,
                                              last.msg["targetComputer"]) : TRUE
       IN /\ Len(log) = 1
          /\ log[1] = [e |-> "send", to |-> last.atRoute[d].id,
                       msg |-> last.msg, ok |-> TRUE]

\* the first device-role record registered under a name
FirstDeviceNamed(cl, name) ==
  CHOOSE i \in DevicesNamed(cl, name) : \A j \in DevicesNamed(cl, name) : i <= j

\* C4 amended: the unmodified command is sent to the first device-role record
\* registered under targetComputer and to it only; when that send succeeds
\* nothing else is sent, so no viewer receives anything and the originator
\* gets no command_response; the send succeeds when that record's transport
\* is OPEN unless the send throws.
C4_FirstDeviceGetsCommand ==
  (RoutedKind(Str(<<"command">>))
   /\ DevicesNamed(last.atRoute, last.msg["targetComputer"]) # {})
    => LET d == last.atRoute[FirstDeviceNamed(last.atRoute,
                                              last.msg["targetComputer"])]
       IN /\ log[1].e = "send"
          /\ log[1].to = d.id
          /\ log[1].msg = last.msg
          /\ log[1].ok => (Len(log) = 1 /\ ws[d.id] = "OPEN")
          /\ \A i \in DOMAIN log : i > 1 =>
               /\ log[i].to = last.sender
               /\ Kind(log[i].msg) = Str(<<"command_response">>)
          /\ clients = pre

C4_Witness ==
  /\ RoutedKind(Str(<<"command">>))
  /\ Cardinality(DevicesNamed(last.atRoute, last.msg["targetComputer"])) = 2
  /\ Len(log) = 1
  /\ log[1].ok
  /\ log[1].to # last.sender

\* an api_registration with every field present and of its declared type
WellFormedRegistration(m) ==
  /\ isValidMessage(m)
  /\ Kind(m) = Str(<<"api_registration">>)
  /\ RequiredFields(Kind(m)) \subseteq DOMAIN m
  /\ m["computerName"].t = "string"
  /\ m["computerType"].t = "string"
  /\ m["functions"].t = "array"
  /\ m["status"].t = "object"

RoutedRegistration == last.routed /\ WellFormedRegistration(last.msg)

\* C5: after a well-formed api_registration from C is routed, the lookup of
\* its computerName yields C's record, a device with the envelope's name,
\* type and function list, whatever identity C it was routed under.
C5_RegistrationFound ==
  RoutedRegistration
    => LET c == getComputerByName(clients, last.msg["computerName"])
       IN /\ c.id = last.sender
          /\ c.type = "computercraft"
          /\ c.computerName = last.msg["computerName"]
          /\ c.computerType = last.msg["computerType"]
          /\ c.registeredFunctions = last.msg["functions"]

\* the calls that carried a given envelope
CallsWith(l, m) == {i \in DOMAIN l : l[i].e = "send" /\ l[i].msg = m}

\* C6: a routed well-formed api_registration is sent to every viewer-role
\* record (and so reaches every open one whose send does not throw), to no
\* device-role record and not to the registering connection.
C6_RegistrationReachesViewersOnly ==
  RoutedRegistration
    => /\ \A i \in DOMAIN clients :
            clients[i].type = "dashboard"
              => \E j \in CallsWith(log, last.msg) :
                   /\ log[j].to = clients[i].id
                   /\ log[j].ok => ws[clients[i].id] = "OPEN"
       /\ \A j \in CallsWith(log, last.msg) :
            /\ log[j].to # last.sender
            /\ \E i \in DOMAIN clients :
                 clients[i].id = log[j].to /\ clients[i].type = "dashboard"

C6_Witness ==
  /\ RoutedRegistration
  /\ last.op = "message"
  /\ last.sender \in Ids(clients)
  /\ \E j \in CallsWith(log, last.msg) : log[j].ok
  /\ Len(clients) = 2

\* s occurs in t as a run of consecutive chunks
Occurs(s, t) ==
  \E k \in 0..(Len(t) - Len(s)) : \A i \in DOMAIN s : t[k + i] = s[i]

\* C7: a routed well-formed api_registration makes exactly one chat call; it
\* is the last call, addressed to the registering connection, from "server",
\* of medium priority, its content naming the device and the number of
\* functions; the registry update is the first call and the viewer broadcast
\* lies between the two.
C7_OneWelcomeLast ==
  RoutedRegistration
    => LET l == RouteLog
           n == Len(l)
       IN /\ n >= 2
          /\ {i \in DOMAIN l : l[i].e = "send" /\ Kind(l[i].msg) = Str(<<"chat">>)}
               = {n}
          /\ l[n].to = last.sender
          /\ Get(l[n].msg, "source") = Str(<<"server">>)
          /\ Get(l[n].msg, "priority") = Str(<<"medium">>)
          /\ Occurs(last.msg["computerName"].v, Get(l[n].msg, "content").v)
          /\ Occurs(<<ToString(Len(last.msg["functions"].v))>>,
                    Get(l[n].msg, "content").v)
          /\ l[1].e = "update" /\ l[1].to = last.sender
          /\ \A i \in 2..(n - 1) : i \in CallsWith(l, last.msg)

C7_Witness ==
  /\ RoutedRegistration
  /\ Len(RouteLog) = 3
  /\ RouteLog[2].ok
  /\ RouteLog[3].ok
  /\ RouteLog[1].ok

\* the records whose lastPing is at least three heartbeat periods old
Stale(cl, t) == {i \in DOMAIN cl : t - cl[i].lastPing >= 3 * PING_INTERVAL}

\* C8: a record whose lastPing is three or more heartbeat periods old is not
\* counted in getStats().aliveClients, and a heartbeat tick removes every
\* such record, whatever the readyState of its transport.
C8_StaleIsReaped ==
  /\ getStats(clients, now).aliveClients + Cardinality(Stale(clients, now))
       <= Len(clients)
  /\ last.op = "tick"
       => \A i \in Stale(pre, now) : pre[i].id \notin Ids(clients)

C8_Witness ==
  /\ last.op = "tick"
  /\ \E i \in Stale(pre, now) :
       /\ ws[pre[i].id] = "OPEN"
       /\ pre[i].id \notin Ids(clients)
  /\ clients # <<>>

\* C9: removeClient on an id that is not in the registry, as in a 'close'
\* after an 'error' of the same connection, raises nothing and leaves every
\* record as it was.
C9_RemoveAbsentIsNoOp ==
  (last.op \in {"close", "error"} /\ last.sender \notin Ids(pre))
    => (clients = pre /\ ~last.raised)

C9_Witness ==
  /\ last.op = "close"
  /\ last.sender \notin Ids(pre)
  /\ clients # <<>>

\* the calls of the broadcast the last handler made
BroadcastLog ==
  IF Kind(last.msg) = Str(<<"api_registration">>)
  THEN SubSeq(RouteLog, 2, Len(RouteLog) - 1)
  ELSE RouteLog

\* C10: a broadcast calls sendToClient once for every record of the role, in
\* spite of calls that fail or throw, and returns the number of calls that
\* returned true.
C10_BroadcastCountsSuccesses ==
  (last.routed /\ last.count >= 0)
    => LET b == BroadcastLog
       IN /\ \A i \in DOMAIN clients :
               Cardinality({j \in DOMAIN b : b[j].to = clients[i].id})
                 = IF clients[i].type = "dashboard" THEN 1 ELSE 0
          /\ \A j \in DOMAIN b : b[j].e = "send" /\ b[j].to \in Ids(clients)
          /\ last.count = Cardinality({j \in DOMAIN b : b[j].ok})
          /\ \A j \in DOMAIN b : ws[b[j].to] # "OPEN" => ~b[j].ok

C10_Witness ==
  /\ last.routed
  /\ last.count = 1
  /\ Len(BroadcastLog) = 2
  /\ ~BroadcastLog[1].ok
  /\ BroadcastLog[2].ok
  /\ ws[BroadcastLog[1].to] = "OPEN"

\* the send calls of the last handler
Sends == {i \in DOMAIN log : log[i].e = "send"}

Angles == {"<", ">"}

\* C11: every copy of a routed chat differs from the chat in content only,
\* and its content is the chat's content without its '<' and '>' characters,
\* the other characters kept in order; every copy of a routed envelope of
\* another kind is the envelope itself; sanitizing twice is sanitizing once.
C11_ChatIsStripped ==
  /\ (RoutedKind(Str(<<"chat">>)) /\ last.msg["content"].t = "string")
       => \A i \in Sends :
            LET m == log[i].msg
            IN /\ DOMAIN m = DOMAIN last.msg
               /\ \A f \in DOMAIN m \ {"content"} : m[f] = last.msg[f]
               /\ m["content"].t = "string"
               /\ \A k \in DOMAIN m["content"].v : m["content"].v[k] \notin Angles
               /\ m["content"].v
                    = SelectSeq(last.msg["content"].v, LAMBDA c : c \notin Angles)
  /\ (last.routed /\ ~last.raised /\ Kind(last.msg) \in Kinds \ {Str(<<"chat">>)})
       => \A i \in Sends :
            Kind(log[i].msg) = Kind(last.msg) => log[i].msg = last.msg
  /\ last.msg # NoMsg
       => sanitizeMessage(sanitizeMessage(last.msg)) = sanitizeMessage(last.msg)

\* a chat with two angle brackets and a category reached a viewer
C11_Witness ==
  /\ RoutedKind(Str(<<"chat">>))
  /\ last.msg["content"] = Str(<<"<", "b", ">", "hi">>)
  /\ "category" \in DOMAIN last.msg
  /\ \E i \in Delivered : log[i].msg["content"] = Str(<<"b", "hi">>)

\* the type each required field is declared with
DeclaredType(kind, f) ==
  CASE kind = Str(<<"command">>) /\ f = "parameters" -> "object"
    [] kind = Str(<<"api_registration">>) /\ f = "functions" -> "array"
    [] f = "status" -> "object"
    [] f = "success" -> "boolean"
    [] OTHER -> "string"

\* every required field is there and one of them has another type
Mistyped(m) ==
  /\ Kind(m) \in Kinds
  /\ RequiredFields(Kind(m)) \subseteq DOMAIN m
  /\ \E f \in RequiredFields(Kind(m)) : m[f].t # DeclaredType(Kind(m), f)

\* C12: an envelope with a required field of the wrong type is rejected:
\* nothing is delivered and the registry is as the handler found it.
C12_MistypedIsRejected ==
  (last.routed /\ Mistyped(last.msg)) => (clients = pre /\ Delivered = {})

\* C13: routeMessage returns normally for every envelope that passes
\* isValidMessage, whatever its kind-specific fields hold.
C13_RouteNeverRaises ==
  (last.routed /\ isValidMessage(last.msg)) => ~last.raised

\* the error text a command to an absent target is answered with
AbsentText(m) ==
  Str(<<"Computer '">> \o ToStr(m["targetComputer"]) \o <<"' is not connected">>)

\* C14: when the command's target record exists and the send to it fails,
\* the handler makes two calls: the command to the target, once, and then
\* one command_response to the originating connection with success=false,
\* the command's id as originalCommandId and an error text that is not the
\* absent-target text; the registry keeps every record.
C14_FailedDeliveryAnswered ==
  (RoutedKind(Str(<<"command">>))
   /\ DevicesNamed(last.atRoute, last.msg["targetComputer"]) # {}
   /\ ~log[1].ok)
    => /\ Len(log) = 2
       /\ CallsWith(log, last.msg) = {1}
       /\ log[2].e = "send"
       /\ log[2].to = last.sender
       /\ Kind(log[2].msg) = Str(<<"command_response">>)
       /\ Get(log[2].msg, "success") = Bool(FALSE)
       /\ Get(log[2].msg, "originalCommandId") = last.msg["id"]
       /\ Get(log[2].msg, "error").t = "string"
       /\ Get(log[2].msg, "error") # AbsentText(last.msg)
       /\ clients = pre

\* the send to an open target threw and the originator got the answer
C14_Witness ==
  /\ RoutedKind(Str(<<"command">>))
  /\ DevicesNamed(last.atRoute, last.msg["targetComputer"]) # {}
  /\ Len(log) = 2
  /\ ~log[1].ok
  /\ ws[log[1].to] = "OPEN"
  /\ log[2].ok
  /\ log[2].to # log[1].to

\* the sendToClient calls of the last handler: every send but the ws.send
\* the connection handler greets with
SendToClientCalls == IF last.op = "connection" THEN {} ELSE Sends

\* C15: a sendToClient call returns true exactly when a record with the id
\* exists, its transport is OPEN and ws.send does not throw; a handler that
\* calls it ends without an exception, and the calls leave the registry as it
\* was: no record is added or removed, and outside the update of an
\* api_registration no record changes.
C15_SendSucceedsIffOpen ==
  /\ \A i \in SendToClientCalls :
       log[i].ok <=> /\ log[i].to \in Ids(last.atRoute)
                     /\ ws[log[i].to] = "OPEN"
                     /\ log[i].to \notin last.threw
  /\ SendToClientCalls # {} => ~last.raised
  /\ last.routed => Ids(clients) = Ids(last.atRoute)
  /\ (last.routed /\ Kind(last.msg) # Str(<<"api_registration">>))
       => clients = last.atRoute

\* one handler made a call that threw, a call to a transport that is not
\* OPEN and a call that succeeded, or called with an id the registry lacks
C15_Witness ==
  \/ /\ \E i \in Sends : log[i].to \in last.threw
     /\ \E i \in Sends : log[i].ok
  \/ /\ \E i \in Sends : log[i].to \in Ids(clients) /\ ws[log[i].to] = "CLOSING"
     /\ \E i \in Sends : log[i].ok
     /\ \E i \in Sends : log[i].to \notin Ids(clients)

\* the ids isClientAlive is asked about: every connection made so far and
\* the identity of an HTTP request
AskedIds == DOMAIN ws \cup {HttpId(now)}

\* the time since a record was last heard of
Elapsed(c, t) == t - (IF c.lastPing # 0 THEN c.lastPing ELSE c.connectedAt)

\* C16: isClientAlive(id) is true exactly when a record with the id exists
\* and less than three heartbeat periods have passed since its lastPing
\* (its connectedAt when lastPing is unset); it is false for an id with no
\* record and for a record at exactly three periods.
C16_AliveIffRecent ==
  \A id \in AskedIds :
    /\ isClientAlive(clients, id, now)
         <=> \E i \in DOMAIN clients :
               /\ clients[i].id = id
               /\ Elapsed(clients[i], now) < 3 * PING_INTERVAL
    /\ id \notin Ids(clients) => ~isClientAlive(clients, id, now)
    /\ (\E i \in DOMAIN clients :
          clients[i].id = id /\ Elapsed(clients[i], now) = 3 * PING_INTERVAL)
         => ~isClientAlive(clients, id, now)

\* a record at exactly three periods, one at two, and an id without a record
C16_Witness ==
  /\ \E i \in DOMAIN clients : Elapsed(clients[i], now) = 3 * PING_INTERVAL
  /\ \E i \in DOMAIN clients : Elapsed(clients[i], now) = 2 * PING_INTERVAL
  /\ AskedIds \ Ids(clients) # {}

\* the connections a tick removed, and those it pinged
TickRemoved == {log[i].to : i \in {k \in DOMAIN log : log[k].e = "remove"}}
TickPinged == {log[i].to : i \in {k \in DOMAIN log : log[k].e = "ping"}}

\* the records a reap at time t is due to remove
ReapDue(cl, t) ==
  {cl[i].id : i \in {k \in DOMAIN cl :
                      \/ Elapsed(cl[k], t) >= 3 * PING_INTERVAL
                      \/ ws[cl[k].id] # "OPEN"}}

\* the reap of a tick: it removes, before any ping, every record that is not
\* alive or whose transport is not OPEN, and those only; no removed record is
\* pinged, and every record left was alive at the reap and has an OPEN
\* transport
ReapThenPing ==
  /\ TickRemoved = ReapDue(pre, now)
  /\ \A i, j \in DOMAIN log :
       (log[i].e = "remove" /\ log[j].e = "ping") => i < j
  /\ TickRemoved \cap TickPinged = {}
  /\ Ids(clients) = Ids(pre) \ TickRemoved
  /\ \A i \in DOMAIN clients :
       /\ ws[clients[i].id] = "OPEN"
       /\ Elapsed(getClient(pre, clients[i].id), now) < 3 * PING_INTERVAL
       /\ clients[i].id \in TickPinged

\* C17 as stated: a tick reaps as one batch and then pings, and every record
\* left with an OPEN transport has lastPing set to the time of the tick.
C17_TickStampsEveryOpenRecord ==
  last.op = "tick"
    => /\ ReapThenPing
       /\ \A i \in DOMAIN clients :
            ws[clients[i].id] = "OPEN" => clients[i].lastPing = now

\* C17 amended: a tick reaps as one batch and then pings every record left;
\* a record whose ping went out has lastPing set to the time of the tick and
\* nothing else changed, and a record whose ping threw is as it was.
C17_TickStampsPingedRecords ==
  last.op = "tick"
    => /\ ReapThenPing
       /\ \A k \in DOMAIN log : log[k].e = "ping" =>
            LET c == getClient(clients, log[k].to)
                p == getClient(pre, log[k].to)
            IN IF log[k].ok THEN c = [p EXCEPT !.lastPing = now] ELSE c = p

\* a tick removed one record and the ping of the other threw
C17_Witness ==
  /\ last.op = "tick"
  /\ TickRemoved # {}
  /\ \E k \in DOMAIN log :
       /\ log[k].e = "ping"
       /\ ~log[k].ok
       /\ getClient(clients, log[k].to).lastPing < now

\* the role of the record with an id, "none" when there is no such record
RoleOf(cl, id) == getClient(cl, id).type

\* C18: a record is created with role dashboard; a record's role changes
\* only in the handler of an api_registration envelope from its own
\* connection, and then to computercraft; after such an envelope the sender's
\* role is computercraft; an envelope of another kind changes no role.
C18_RoleFollowsRegistration ==
  /\ last.op = "connection" => RoleOf(clients, last.sender) = "dashboard"
  /\ \A id \in Ids(clients) \cap Ids(pre) :
       RoleOf(clients, id) # RoleOf(pre, id)
         => /\ last.op = "message"
            /\ last.sender = id
            /\ isValidMessage(last.msg)
            /\ Kind(last.msg) = Str(<<"api_registration">>)
            /\ RoleOf(pre, id) = "dashboard"
            /\ RoleOf(clients, id) = "computercraft"
  /\ (last.op = "message" /\ isValidMessage(last.msg)
      /\ Kind(last.msg) = Str(<<"api_registration">>)
      /\ last.sender \in Ids(pre))
       => RoleOf(clients, last.sender) = "computercraft"
  /\ (last.msg # NoMsg /\ Kind(last.msg) # Str(<<"api_registration">>))
       => \A id \in Ids(clients) : RoleOf(clients, id) = RoleOf(pre, id)

\* a viewer sent its first api_registration and became a device, next to a
\* connection that stayed a viewer
C18_Witness ==
  /\ last.op = "message"
  /\ RoutedKind(Str(<<"api_registration">>))
  /\ RoleOf(pre, last.sender) = "dashboard"
  /\ RoleOf(clients, last.sender) = "computercraft"
  /\ \E id \in Ids(clients) : RoleOf(clients, id) = "dashboard"

\* C19: a record has role computercraft exactly when its computerName,
\* computerType and registeredFunctions are set.
C19_DeviceIffRegistered ==
  \A i \in DOMAIN clients :
    clients[i].type = "computercraft"
      <=> /\ clients[i].computerName # Undefined
          /\ clients[i].computerType # Undefined
          /\ clients[i].registeredFunctions # Undefined

\* C20: a frame that fails isValidMessage or validateMessageType is dropped:
\* no envelope reaches any connection and the registry, the role of the
\* sender included, is as it was before the frame.
C20_InvalidFrameHasNoEffect ==
  (last.op = "message"
   /\ (~isValidMessage(last.msg) \/ ~validateMessageType(last.msg)))
    => (clients = pre /\ Delivered = {})

\* the connections that were accepted and have no record any more
RemovedIds == DOMAIN ws \ Ids(clients)

\* what a 'close' or 'error' of last.sender leaves: every other record as it
\* was, and no record of the sender
OnlySenderRemoved ==
  /\ last.sender \notin Ids(clients)
  /\ \A i \in DOMAIN pre :
       pre[i].id # last.sender => \E j \in DOMAIN clients : clients[j] = pre[i]
  /\ Len(clients) = Len(pre) - (IF last.sender \in Ids(pre) THEN 1 ELSE 0)

\* what holds of the removed connections in every state
RemovedIsUnreachable ==
  /\ last.op \in {"close", "error"} => OnlySenderRemoved
  /\ \A id \in RemovedIds : ~sendToClient(clients, ws, {}, id)
  /\ \A i \in SendToClientCalls : log[i].to \in RemovedIds => ~log[i].ok
  /\ (last.routed /\ last.count >= 0)
       => \A j \in DOMAIN BroadcastLog : BroadcastLog[j].to \notin RemovedIds
  /\ (RoutedKind(Str(<<"command">>))
      /\ DevicesNamed(clients, last.msg["targetComputer"]) = {})
       => /\ Len(log) = 1
          /\ log[1].to = last.sender
          /\ Get(log[1].msg, "success") = Bool(FALSE)
          /\ Get(log[1].msg, "error") = AbsentText(last.msg)

\* C21: a 'close' or 'error' of connection C removes C's record and no other;
\* from then on C has no record again, sendToClient(C) returns false, no
\* call to C succeeds, no broadcast calls C, and a command naming a computer
\* that no remaining device record carries is answered with the absent-target
\* failure.
C21_ClosedConnectionIsGone ==
  /\ []RemovedIsUnreachable
  /\ [][\A id \in RemovedIds : id \notin Ids(clients')]_vars

\* an 'error' removed the older of two records
C21_Witness ==
  /\ last.op = "error"
  /\ Len(pre) = 2
  /\ pre[1].id = last.sender
  /\ clients = <<pre[2]>>

HttpOps == {"http_message", "http_register", "http_command"}

\* C22: the identity an HTTP endpoint routes under is the id of no record:
\* every call addressed to it returns false, so the command_response or the
\* welcome it is sent reaches nobody, and the routing changes no record.
C22_HttpIdentityIsNoRecord ==
  (last.op \in HttpOps /\ last.routed)
    => /\ last.sender \notin Ids(pre)
       /\ \A i \in DOMAIN pre : pre[i].id.pfx # last.sender.pfx
       /\ \A i \in Sends : log[i].to = last.sender => ~log[i].ok
       /\ \A i \in Delivered : log[i].to \in Ids(pre)
       /\ clients = pre

\* POST /register told a viewer of the device and its welcome reached nobody
C22_Witness ==
  /\ last.op = "http_register"
  /\ last.routed
  /\ ~last.raised
  /\ Delivered # {}
  /\ \E i \in Sends :
       /\ log[i].to = last.sender
       /\ Kind(log[i].msg) = Str(<<"chat">>)
  /\ Len(pre) = 2

FreshRecord(c, id, t) ==
  /\ c.id = id
  /\ c.type = "dashboard"
  /\ c.connectedAt = t /\ c.lastPing = t
  /\ c.computerName = Undefined
  /\ c.computerType = Undefined
  /\ c.registeredFunctions = Undefined

IdText(id) == <<id.pfx \o "_", ToString(id.t), "_", ToString(id.r)>>

\* C24: accepting a connection puts its record into the registry and makes
\* one call: a chat from "server", whose content contains the id addClient
\* returned, sent to the new connection and to no other; the connection was
\* never accepted before, so nothing reached it earlier.
C24_OneWelcomeOnAccept ==
  [][last'.op = "connection"
       => /\ last'.sender \notin DOMAIN ws
          /\ last'.sender \notin Ids(clients)
          /\ last'.sender \in Ids(clients')
          /\ Len(log') = 1
          /\ log'[1].e = "send" /\ log'[1].ok
          /\ log'[1].to = last'.sender
          /\ Kind(log'[1].msg) = Str(<<"chat">>)
          /\ Get(log'[1].msg, "source") = Str(<<"server">>)
          /\ Occurs(IdText(last'.sender), Get(log'[1].msg, "content").v)]_vars

\* the second connection was greeted while the first one is registered
C24_Witness ==
  /\ last.op = "connection"
  /\ Len(clients) = 2
  /\ Delivered = {1}
  /\ log[1].to = clients[2].id
  /\ ws[clients[1].id] = "OPEN"

\* C25: destroy clears the heartbeat timer, calls close() on the transport of
\* every record it found, in spite of calls that throw, and leaves the
\* registry empty, so that sendToClient returns false for every id and every
\* broadcast returns 0; no tick and no other handler runs after it.
C25_DestroyLeavesNothing ==
  /\ last.op = "destroy"
       => /\ nextTick = NoTimer
          /\ clients = <<>>
          /\ Len(log) = Len(pre)
          /\ \A i \in DOMAIN pre :
               /\ log[i].e = "close"
               /\ log[i].to = pre[i].id
               /\ log[i].ok => ws[pre[i].id] # "OPEN"
          /\ \A id \in AskedIds : ~sendToClient(clients, ws, {}, id)
          /\ \A type \in {"dashboard", "computercraft"}, m \in LiveFrames :
               broadcastToType(clients, ws, {}, type, m).count = 0
  /\ nextTick = NoTimer => last.op = "destroy"

\* destroy found two records; the close() of the first threw, the second
\* transport is closing
C25_Witness ==
  /\ last.op = "destroy"
  /\ Len(pre) = 2
  /\ ~log[1].ok
  /\ ws[pre[1].id] = "OPEN"
  /\ log[2].ok
  /\ ws[pre[2].id] = "CLOSING"

\* the last handler did nothing but broadcast m to the viewers: one call for
\* every viewer-role record, which succeeds when the transport is OPEN and the
\* send does not throw, no call for a device-role record, and no record
\* changed
BroadcastToViewers(m) ==
  /\ \A i \in DOMAIN clients :
       Cardinality({j \in DOMAIN log : log[j].to = clients[i].id})
         = IF clients[i].type = "dashboard" THEN 1 ELSE 0
  /\ \A j \in DOMAIN log :
       /\ log[j].e = "send"
       /\ log[j].msg = m
       /\ log[j].to \in Ids(clients)
       /\ log[j].ok <=> (ws[log[j].to] = "OPEN" /\ log[j].to \notin last.threw)
  /\ clients = pre

\* C26: routing a chat sends the sanitized chat to every viewer-role record,
\* reaching the open ones, and to no device-role record, and leaves the
\* registry as it was.
C26_ChatReachesViewersOnly ==
  RoutedKind(Str(<<"chat">>)) => BroadcastToViewers(sanitizeMessage(last.msg))

\* a device sent a chat with angle brackets and the viewer received it
C26_Witness ==
  /\ RoutedKind(Str(<<"chat">>))
  /\ last.msg = ChatFrame
  /\ RoleOf(clients, last.sender) = "computercraft"
  /\ Len(clients) = 2
  /\ Delivered = {1}
  /\ log[1].msg # last.msg

CommandIds ==
  {m["id"] : m \in {f \in Frames : Kind(f) = Str(<<"command">>)}}

OfRole(role) == {i \in DOMAIN clients : clients[i].type = role}

\* C28: getStats reports the number of records as totalClients, which is the
\* sum of dashboards and computers, each the number of records of its role,
\* and as aliveClients the number of records less than three heartbeat
\* periods old, which lies between 0 and totalClients.
C28_StatsAddUp ==
  LET s == getStats(clients, now)
  IN /\ s.totalClients = Len(clients)
     /\ s.totalClients = s.dashboards + s.computers
     /\ s.dashboards = Cardinality(OfRole("dashboard"))
     /\ s.computers = Cardinality(OfRole("computercraft"))
     /\ s.aliveClients
          = Cardinality({i \in DOMAIN clients :
                           isClientAlive(clients, clients[i].id, now)})
     /\ s.aliveClients
          = Cardinality({i \in DOMAIN clients :
                           Elapsed(clients[i], now) < 3 * PING_INTERVAL})
     /\ 0 <= s.aliveClients /\ s.aliveClients <= s.totalClients

\* a viewer and a device, one of them no longer alive
C28_Witness ==
  /\ OfRole("dashboard") # {}
  /\ OfRole("computercraft") # {}
  /\ getStats(clients, now).aliveClients = 1
  /\ getStats(clients, now).totalClients = 2

\* the names getComputerByName is asked for
AskedNames == {Str(<<"A">>), Str(<<"B">>), Str(<<"C">>), Undefined}

\* record i is a device registered under the name
IsDeviceNamed(i, name) ==
  /\ clients[i].type = "computercraft"
  /\ StrictEq(clients[i].computerName, name)

\* C29: the registry lists the records in the order their connections were
\* accepted, and getComputerByName(name) returns the first record in that
\* order that has role computercraft and carries the name, whatever its
\* transport and its lastPing, and nothing when there is no such record; it
\* never returns a record of role dashboard.
C29_FirstDeviceOfName ==
  /\ \A i, j \in DOMAIN clients : i < j => clients[i].id.r < clients[j].id.r
  /\ \A name \in AskedNames :
       LET r == getComputerByName(clients, name)
       IN /\ r = NoClient <=> ~\E i \in DOMAIN clients : IsDeviceNamed(i, name)
          /\ r # NoClient
               => /\ r.type = "computercraft"
                  /\ \E i \in DOMAIN clients :
                       /\ clients[i] = r
                       /\ IsDeviceNamed(i, name)
                       /\ \A j \in 1..(i - 1) : ~IsDeviceNamed(j, name)

\* two devices carry the name A; the older one, whose transport is closing,
\* is the one returned
C29_Witness ==
  /\ Len(clients) = 2
  /\ IsDeviceNamed(1, Str(<<"A">>))
  /\ IsDeviceNamed(2, Str(<<"A">>))
  /\ ws[clients[1].id] = "CLOSING"
  /\ ws[clients[2].id] = "OPEN"
  /\ getComputerByName(clients, Str(<<"A">>)) = clients[1]

\* the places at which a transport was sent the k-th frame of connection c
PlacesOf(box, c, k) ==
  {p \in DOMAIN box : Get(box[p], "id") = OrderFrame(c, k)["id"]}

\* every transport holds the chats of each connection in the order the
\* connection sent them, each at most once
InSendingOrder ==
  \A v \in DOMAIN inbox, c \in DOMAIN wire :
    /\ \A k \in 1..MaxFrames : Cardinality(PlacesOf(inbox[v], c, k)) <= 1
    /\ \A k1, k2 \in 1..MaxFrames :
         k1 < k2 => \A p1 \in PlacesOf(inbox[v], c, k1),
                       p2 \in PlacesOf(inbox[v], c, k2) : p1 < p2

\* the handler of one frame runs without another event in between: it takes
\* the oldest frame of its connection off the wire and no frame of another
\* connection, every call it makes carries that frame, each transport is sent
\* just what these calls delivered, and the interval callback does not run
RoutedInOneStep ==
  last'.op = "message"
    => LET c == last'.sender
       IN /\ wire[c].q # <<>>
          /\ last'.msg = Head(wire[c].q)
          /\ wire'[c].q = Tail(wire[c].q)
          /\ \A d \in DOMAIN wire \ {c} : wire'[d] = wire[d]
          /\ \A i \in DOMAIN log' :
               /\ log'[i].e = "send"
               /\ Get(log'[i].msg, "id") = last'.msg["id"]
          /\ \A v \in DOMAIN inbox :
               /\ Len(inbox'[v]) <= Len(inbox[v]) + 1
               /\ SubSeq(inbox'[v], 1, Len(inbox[v])) = inbox[v]
               /\ Len(inbox'[v]) = Len(inbox[v]) + 1
                    <=> \E i \in DOMAIN log' : log'[i].to = v /\ log'[i].ok
          /\ nextTick' = nextTick
          /\ now' = now

\* C30: the frames of a connection are routed in the order they arrive, each
\* to its end before the next event: a viewer that receives two chats of one
\* connection receives them in the order they were sent, and no tick and no
\* frame of another connection is handled while an envelope is routed.
C30_FramesRoutedInOrder ==
  /\ []InSendingOrder
  /\ [][RoutedInOneStep]_vars

\* a viewer holds both chats of the other connection and a chat of its own,
\* after a heartbeat period has passed
C30_Witness ==
  \E v \in DOMAIN inbox, c \in DOMAIN wire :
    /\ v # c
    /\ PlacesOf(inbox[v], c, 1) # {}
    /\ PlacesOf(inbox[v], c, 2) # {}
    /\ now > T0
    /\ \E d \in DOMAIN wire : d # c /\ PlacesOf(inbox[v], d, 1) # {}

\* the OPEN connections the last tick removed
ReapedOpen == {id \in TickRemoved : ws[id] = "OPEN"}

\* C31: a record is at most one heartbeat period old for every tick in a row
\* whose ping threw, and one more; so a connection whose transport is OPEN
\* and whose ping went out at the last tick is alive at the next one, with or
\* without a pong, and a tick removes an OPEN connection only after its ping
\* threw at the two ticks before.
C31_PingedIsNeverReaped ==
  /\ \A i \in DOMAIN clients :
       LET c == clients[i]
       IN /\ Elapsed(c, now) <= (missed[c.id] + 1) * PING_INTERVAL
          /\ missed[c.id] = 0 => isClientAlive(clients, c.id, now)
  /\ last.op = "tick"
       => /\ \A id \in ReapedOpen : missed[id] >= 2
          /\ \A k \in DOMAIN log :
               (log[k].e = "ping" /\ log[k].ok)
                 => /\ getClient(clients, log[k].to).lastPing = now
                    /\ missed[log[k].to] = 0

\* a tick kept a connection accepted three periods ago and removed an OPEN
\* one whose pings threw
C31_Witness ==
  /\ last.op = "tick"
  /\ ReapedOpen # {}
  /\ \E i \in DOMAIN clients :
       /\ clients[i].connectedAt = T0
       /\ now >= T0 + 3 * PING_INTERVAL
       /\ clients[i].lastPing = now

\* an api_registration was routed for an HTTP request
HttpRegistration ==
  /\ last.op \in {"http_register", "http_message"}
  /\ last.routed
  /\ Kind(last.msg) = Str(<<"api_registration">>)

\* the names getComputerList reports
ListedNames(cl) ==
  {getComputerList(cl, now)[i].computerName : i \in DOMAIN getComputerList(cl, now)}

\* the command a connection sends next for a computer
CommandFor(name) == With(CommandFrame("k1", "A"), "targetComputer", name)

C33_DeviceStaysDevice ==
  /\ \A id \in Ids(pre) \cap Ids(clients) :
       RoleOf(pre, id) = "computercraft" => RoleOf(clients, id) = "computercraft"
  /\ (last.routed /\ last.count >= 0)
       => \A j \in DOMAIN BroadcastLog :
            /\ RoleOf(pre, BroadcastLog[j].to) # "computercraft"
            /\ RoleOf(clients, BroadcastLog[j].to) = "dashboard"

\* a device that has been through a heartbeat tick sent a chat: the viewer
\* received it and the device, still a device, did not
C33_Witness ==
  /\ last.op = "message"
  /\ Kind(last.msg) = Str(<<"chat">>)
  /\ RoleOf(pre, last.sender) = "computercraft"
  /\ RoleOf(clients, last.sender) = "computercraft"
  /\ getClient(clients, last.sender).lastPing > getClient(clients, last.sender).connectedAt
  /\ Delivered # {}
  /\ \A i \in Sends : log[i].to # last.sender

\* a well-formed api_registration came from a connection that is registered
\* as a device already
Reregistered ==
  /\ last.op = "message"
  /\ RoutedRegistration
  /\ RoleOf(pre, last.sender) = "computercraft"
  /\ getClient(pre, last.sender).computerName # Undefined

\* the re-registration replaced the three fields by the envelope's and left
\* the rest of the record, its place and every other record as they were
FieldsReplaced ==
  /\ Len(clients) = Len(pre)
  /\ \A i \in DOMAIN pre :
       IF pre[i].id = last.sender
       THEN clients[i] = [pre[i] EXCEPT
                            !.computerName = last.msg["computerName"],
                            !.computerType = last.msg["computerType"],
                            !.registeredFunctions = last.msg["functions"]]
       ELSE clients[i] = pre[i]

\* C34 as stated: a second api_registration from a registered device replaces
\* its three fields; under a new name the old name no longer resolves to the
\* connection and the new name does; the number of records and the rest of
\* the record are unchanged.
C34_NewNameResolves ==
  Reregistered
    => LET old == getClient(pre, last.sender).computerName
           new == last.msg["computerName"]
       IN /\ FieldsReplaced
          /\ old # new
               => /\ getComputerByName(clients, old).id # last.sender
                  /\ getComputerByName(clients, new).id = last.sender

\* C34 amended: a second api_registration from a registered device replaces
\* its three fields and nothing else; under a new name the old name no longer
\* resolves to the connection, and the new name resolves to the first device
\* record that carries it, which is this connection exactly when no record
\* before it in the registry is a device of that name.
C34_NewNameResolvesToFirst ==
  Reregistered
    => LET old == getClient(pre, last.sender).computerName
           new == last.msg["computerName"]
           me == CHOOSE i \in DOMAIN clients : clients[i].id = last.sender
       IN /\ FieldsReplaced
          /\ old # new
               => /\ getComputerByName(clients, old).id # last.sender
                  /\ getComputerByName(clients, new)
                       = clients[FirstDeviceNamed(clients, new)]
                  /\ getComputerByName(clients, new).id = last.sender
                       <=> \A j \in 1..(me - 1) : j \notin DevicesNamed(clients, new)

\* the younger of two devices named A re-registered as B: A resolves to the
\* older one and B to the younger
C34_Witness ==
  /\ Reregistered
  /\ Len(clients) = 2
  /\ clients[2].id = last.sender
  /\ pre[2].computerName = Str(<<"A">>)
  /\ clients[2].computerName = Str(<<"B">>)
  /\ getComputerByName(clients, Str(<<"A">>)) = clients[1]
  /\ getComputerByName(clients, Str(<<"B">>)) = clients[2]

\* C35: a pong or an envelope from a connection that has no record any more
\* leaves the registry as it is, so the record does not come back; the
\* lastPing of a record changes only in a heartbeat tick or a pong, and then
\* to the current time, so it never decreases and never lies ahead of the
\* clock.
C35_LateEventsKeepRegistry ==
  /\ (last.op \in {"pong", "message"} /\ last.sender \notin Ids(pre))
       => clients = pre
  /\ \A id \in RemovedIds :
       /\ updateClient(clients, id, [lastPing |-> now]) = clients
       /\ updateClient(clients, id, [type |-> "computercraft"]) = clients
  /\ \A i \in DOMAIN clients : clients[i].lastPing <= now
  /\ \A id \in Ids(pre) \cap Ids(clients) :
       LET was == getClient(pre, id).lastPing
           is == getClient(clients, id).lastPing
       IN /\ was <= is
          /\ was # is
               => /\ is = now
                  /\ \/ last.op = "tick"
                     \/ last.op = "pong" /\ last.sender = id

\* the pong of a connection that a tick had reaped with its transport OPEN
\* arrived while another connection is registered
C35_Witness ==
  /\ last.op = "pong"
  /\ last.sender \notin Ids(pre)
  /\ ws[last.sender] = "OPEN"
  /\ clients # <<>>
  /\ clients = pre

\* the entries of a hook's history that carry the id of the k-th chat of c
EntriesOf(c, k) == PlacesOf(messages[c].list, c, k)

\* what the hook of c has taken in of the copies of its own k-th chat
EchoesSeen(c, k) == {p \in PlacesOf(inbox[c], c, k) : p <= messages[c].seen}

\* C36: a chat from a viewer is sent to every viewer record, the sender's
\* included, and reaches the sender when its transport is OPEN and the send
\* does not throw; the hook puts every chat it sends into its history and
\* again the copy the server sends back, so once it has taken the copy in,
\* its history holds two entries with the chat's id.
C36_ChatEchoedToSender ==
  /\ (last.op = "message" /\ RoutedKind(Str(<<"chat">>))
      /\ RoleOf(clients, last.sender) = "dashboard")
       => /\ BroadcastToViewers(sanitizeMessage(last.msg))
          /\ \E j \in DOMAIN log :
               /\ log[j].to = last.sender
               /\ log[j].ok <=> (ws[last.sender] = "OPEN"
                                 /\ last.sender \notin last.threw)
               /\ log[j].ok
                    => inbox[last.sender][Len(inbox[last.sender])]["id"]
                         = last.msg["id"]
  /\ \A c \in DOMAIN messages, k \in 1..MaxFrames :
       /\ Cardinality(EntriesOf(c, k))
            = (IF k <= wire[c].n THEN 1 ELSE 0) + Cardinality(EchoesSeen(c, k))
       /\ Cardinality(PlacesOf(inbox[c], c, k)) <= 1
       /\ EchoesSeen(c, k) # {} => Cardinality(EntriesOf(c, k)) = 2

\* a dashboard holds two entries for each of its two chats, and the other
\* dashboard was sent the first one
C36_Witness ==
  \E c \in DOMAIN messages :
    /\ Cardinality(EntriesOf(c, 1)) = 2
    /\ Cardinality(EntriesOf(c, 2)) = 2
    /\ \E v \in DOMAIN inbox : v # c /\ PlacesOf(inbox[v], c, 1) # {}

\* the reconnection counter goes back to 0 in the 'open' handler only
ResetOnlyByOpen ==
  (hook'.reconnectCountRef = 0 /\ hook.reconnectCountRef # 0) => hook'.op = "open"

\* C37: between two successful opens the timers make at most
\* reconnectAttempts connects, the counter stays within reconnectAttempts and
\* is reset to 0 by a successful open only, and at most one reconnect timer
\* is pending at any time, also when a failure runs the 'error' and the
\* 'close' handler of one socket.
C37_BoundedRetriesOneTimer ==
  /\ [](/\ hook.tries <= reconnectAttempts
        /\ hook.reconnectCountRef <= reconnectAttempts
        /\ Len(hook.timers) <= 1)
  /\ [][ResetOnlyByOpen]_vars

\* C38: after disconnect(), until the user calls connect() again, no
\* reconnect timer is pending, connectionState is 'disconnected', and no
\* WebSocket is created.
C38_NoReconnectAfterDisconnect ==
  /\ [](hook.manual => /\ hook.timers = <<>>
                       /\ hook.connectionState = "disconnected")
  /\ [][(hook.manual /\ hook'.manual)
          => Len(hook'.sockets) = Len(hook.sockets)]_vars

\* the sockets whose 'close' event this step delivers although the hook
\* holds another socket
SupersededClosing ==
  {s \in DOMAIN hook.sockets :
     /\ hook.sockets[s].readyState # "CLOSED"
     /\ hook'.sockets[s].readyState = "CLOSED"
     /\ hook.wsRef # NoSocket
     /\ hook.wsRef # s}

\* C39: the 'close' event of a socket that connect() has replaced leaves the
\* reference to the new socket in place, does not set connectionState to
\* 'disconnected' while the new socket is open, and sets no reconnect timer;
\* and whenever connectionState is 'connected', sendMessage finds the hook's
\* socket open.
C39_SupersededSocketIsIgnored ==
  /\ [](hook.connectionState = "connected" => sendMessageReady(hook))
  /\ [][SupersededClosing # {}
          => /\ hook'.wsRef = hook.wsRef
             /\ sendMessageReady(hook) => hook'.connectionState # "disconnected"
             /\ hook'.timers = hook.timers]_vars

\* C40: the initial connection loop of the ComputerCraft client ends: the
\* client is online or has given up after at most MAX_RETRIES attempts that
\* failed, whatever the requests come back with.
C40_LoopGivesUp == client.failed <= MAX_RETRIES

====
